---------------------------- MODULE Spec2Model ----------------------------
(***************************************************************************)
(* Model of the hitTuning toolkit: the fclParams container, the FHiCL      *)
(* generator and its regex parser (hitTuning.py), the SQLite run           *)
(* bookkeeping HitTuningDB (hitTuning.py), the database merge              *)
(* (mergeDBFiles.py), the parameter grid and the main script.              *)
(*                                                                         *)
(* Text is modelled as sequences of one-character strings.  Python values  *)
(* are records of one shape, [tag, h, s, items]:                           *)
(*   int    h = the integer                                                *)
(*   float  h = the value in hundredths (finite floats with at most two    *)
(*              decimals, the range in which repr() uses no exponent)      *)
(*   inf    h = 1 or -1, the sign of a non-finite float                    *)
(*   bool   h = 1 or 0                                                     *)
(*   str    s = the characters                                             *)
(*   list   items = the elements                                           *)
(***************************************************************************)
EXTENDS Integers, Sequences, FiniteSets, TLC

(***************************************************************************)
(* Bounds of the model                                                     *)
(***************************************************************************)
\* longest hand-written FCL text, in lines
MaxLines == 3

\* most rows a runs table grows to
MaxRows == 2

\* most database operations in one behaviour
MaxOps == 4

\* longest list handed to reduceList; _ensure_list3 is handed lists up to
\* one entry longer
MaxListLen == 3

\* most invocations of the main script in one behaviour
MaxInvocations == 2

(***************************************************************************)
(* Python values                                                           *)
(***************************************************************************)
PyInt(n) == [tag |-> "int", h |-> n, s |-> <<>>, items |-> <<>>]

PyFloat(hundredths) == [tag |-> "float", h |-> hundredths, s |-> <<>>, items |-> <<>>]

PyInf(sign) == [tag |-> "inf", h |-> sign, s |-> <<>>, items |-> <<>>]

PyBool(b) == [tag |-> "bool", h |-> IF b THEN 1 ELSE 0, s |-> <<>>, items |-> <<>>]

PyStr(cs) == [tag |-> "str", h |-> 0, s |-> cs, items |-> <<>>]

PyList(xs) == [tag |-> "list", h |-> 0, s |-> <<>>, items |-> xs]

IsList(v) == v.tag = "list"

\* int, float and bool are the numbers of Python's numeric tower; inf is a float
IsNumber(v) == v.tag \in {"int", "float", "bool", "inf"}

IsFinite(v) == v.tag \in {"int", "float", "bool"}

\* the value of a finite number, in hundredths
NumVal(v) == IF v.tag = "float" THEN v.h ELSE 100 * v.h

RECURSIVE PyEq(_, _)
\* Python's == on the values of the model
PyEq(a, b) ==
    IF IsFinite(a) /\ IsFinite(b) THEN NumVal(a) = NumVal(b)
    ELSE IF a.tag = "inf" /\ b.tag = "inf" THEN a.h = b.h
    ELSE IF a.tag = "str" /\ b.tag = "str" THEN a.s = b.s
    ELSE IF a.tag = "list" /\ b.tag = "list"
         THEN /\ Len(a.items) = Len(b.items)
              /\ \A i \in 1..Len(a.items) : PyEq(a.items[i], b.items[i])
    ELSE FALSE

(***************************************************************************)
(* Characters and strings                                                  *)
(***************************************************************************)
DigitChars == <<"0", "1", "2", "3", "4", "5", "6", "7", "8", "9">>

IsDigit(c) == \E d \in 1..10 : DigitChars[d] = c

DigitVal(c) == (CHOOSE d \in 1..10 : DigitChars[d] = c) - 1

Lower(c) ==
    CASE c = "T" -> "t" [] c = "R" -> "r" [] c = "U" -> "u" [] c = "E" -> "e"
      [] c = "F" -> "f" [] c = "A" -> "a" [] c = "L" -> "l" [] c = "S" -> "s"
      [] OTHER -> c

LowerStr(cs) == [i \in 1..Len(cs) |-> Lower(cs[i])]

RECURSIVE LStrip(_)
LStrip(cs) == IF cs # <<>> /\ Head(cs) = " " THEN LStrip(Tail(cs)) ELSE cs

RECURSIVE RStrip(_)
RStrip(cs) ==
    IF cs # <<>> /\ cs[Len(cs)] = " " THEN RStrip(SubSeq(cs, 1, Len(cs) - 1)) ELSE cs

\* str.strip()
Strip(cs) == RStrip(LStrip(cs))

RECURSIVE SplitOn(_, _)
\* str.split(c): the pieces between the occurrences of c
SplitOn(cs, c) ==
    IF \A i \in 1..Len(cs) : cs[i] # c THEN <<cs>>
    ELSE LET k == CHOOSE i \in 1..Len(cs) : cs[i] = c /\ \A j \in 1..(i - 1) : cs[j] # c
         IN  <<SubSeq(cs, 1, k - 1)>> \o SplitOn(SubSeq(cs, k + 1, Len(cs)), c)

RECURSIVE NatStr(_)
NatStr(n) == IF n < 10 THEN <<DigitChars[n + 1]>>
             ELSE NatStr(n \div 10) \o <<DigitChars[(n % 10) + 1]>>

\* str(int)
IntStr(n) == IF n < 0 THEN <<"-">> \o NatStr(-n) ELSE NatStr(n)

\* repr(float) of a finite float given in hundredths: 500 -> 5.0, 35 -> 0.35
FloatRepr(hundredths) ==
    LET a    == IF hundredths < 0 THEN -hundredths ELSE hundredths
        sign == IF hundredths < 0 THEN <<"-">> ELSE <<>>
        frac == IF (a % 100) % 10 = 0
                THEN <<DigitChars[((a % 100) \div 10) + 1]>>
                ELSE <<DigitChars[((a % 100) \div 10) + 1], DigitChars[(a % 10) + 1]>>
    IN  sign \o NatStr(a \div 100) \o <<".">> \o frac

RECURSIVE JoinCommaSpace(_)
\* ', '.join(parts)
JoinCommaSpace(parts) ==
    IF parts = <<>> THEN <<>>
    ELSE IF Len(parts) = 1 THEN parts[1]
    ELSE parts[1] \o <<",", " ">> \o JoinCommaSpace(Tail(parts))

RECURSIVE PyStrOf(_)
RECURSIVE PyRepr(_)
\* str(v), what an f-string field {v} writes
PyStrOf(v) ==
    CASE v.tag = "int"   -> IntStr(v.h)
      [] v.tag = "float" -> FloatRepr(v.h)
      [] v.tag = "inf"   -> IF v.h < 0 THEN <<"-", "i", "n", "f">> ELSE <<"i", "n", "f">>
      [] v.tag = "bool"  -> IF v.h = 1 THEN <<"T", "r", "u", "e">> ELSE <<"F", "a", "l", "s", "e">>
      [] v.tag = "str"   -> v.s
      [] v.tag = "list"  ->
            <<"[">> \o JoinCommaSpace([i \in 1..Len(v.items) |-> PyRepr(v.items[i])]) \o <<"]">>

\* repr(v), what str(list) writes for each element
PyRepr(v) == IF v.tag = "str" THEN <<"'">> \o v.s \o <<"'">> ELSE PyStrOf(v)

(***************************************************************************)
(* _parse_value                                                            *)
(***************************************************************************)
AllDigits(cs) == cs # <<>> /\ \A i \in 1..Len(cs) : IsDigit(cs[i])

RECURSIVE DigitsVal(_)
DigitsVal(cs) == IF cs = <<>> THEN 0
                 ELSE 10 * DigitsVal(SubSeq(cs, 1, Len(cs) - 1)) + DigitVal(cs[Len(cs)])

Unsigned(cs) == IF cs # <<>> /\ Head(cs) \in {"-", "+"} THEN Tail(cs) ELSE cs

Signum(cs) == IF cs # <<>> /\ Head(cs) = "-" THEN -1 ELSE 1

\* int(s) succeeds: an optional sign and decimal digits
IntOk(cs) == AllDigits(Unsigned(cs))

IntOf(cs) == Signum(cs) * DigitsVal(Unsigned(cs))

\* float(s) succeeds: an optional sign, digits, a point and at most two
\* decimals ("0." and ".5" included); the exponent forms are outside the model
FloatOk(cs) ==
    LET u == Unsigned(cs)
        parts == SplitOn(u, ".")
    IN  /\ Len(parts) = 2
        /\ parts[1] = <<>> \/ AllDigits(parts[1])
        /\ parts[2] = <<>> \/ AllDigits(parts[2])
        /\ parts[1] # <<>> \/ parts[2] # <<>>
        /\ Len(parts[2]) <= 2

FloatOf(cs) ==
    LET parts == SplitOn(Unsigned(cs), ".")
        fr    == parts[2]
        frv   == IF Len(fr) = 0 THEN 0
                 ELSE IF Len(fr) = 1 THEN 10 * DigitVal(fr[1])
                 ELSE 10 * DigitVal(fr[1]) + DigitVal(fr[2])
    IN  Signum(cs) * (100 * DigitsVal(parts[1]) + frv)

HasAny(cs, chars) == \E i \in 1..Len(cs) : cs[i] \in chars

StartsWith(cs, c) == cs # <<>> /\ cs[1] = c

EndsWith(cs, c) == cs # <<>> /\ cs[Len(cs)] = c

\* s[1:-1]
Inner(cs) == SubSeq(cs, 2, Len(cs) - 1)

RECURSIVE _parse_value(_)
_parse_value(val_str) ==
    LET s == Strip(val_str)
    IN  IF StartsWith(s, "[") /\ EndsWith(s, "]")
        THEN LET inner == Strip(Inner(s))
                 parts == SplitOn(inner, ",")
             IN  IF inner = <<>> THEN PyList(<<>>)
                 ELSE PyList([i \in 1..Len(parts) |-> _parse_value(Strip(parts[i]))])
        ELSE IF LowerStr(s) \in {<<"t", "r", "u", "e">>, <<"f", "a", "l", "s", "e">>}
        THEN PyBool(LowerStr(s) = <<"t", "r", "u", "e">>)
        ELSE IF HasAny(s, {".", "e", "E"}) /\ FloatOk(s) THEN PyFloat(FloatOf(s))
        ELSE IF ~HasAny(s, {".", "e", "E"}) /\ IntOk(s) THEN PyInt(IntOf(s))
        ELSE IF (StartsWith(s, "\"") /\ EndsWith(s, "\"")) \/ (StartsWith(s, "'") /\ EndsWith(s, "'"))
        THEN PyStr(Inner(s))
        ELSE PyStr(s)


(***************************************************************************)
(* State                                                                   *)
(***************************************************************************)
VARIABLES
    \* FCL generation and parsing
    fclPc,      \* "start", "constructed", "generated", "written", "parsed", "raised"
    params,     \* the fclParams object built by the constructor
    fclText,    \* the lines of the FCL file
    origin,     \* who wrote fclText: "none", "generateFCL", "generateFCLMC", "hand"
    parsed      \* the fclParams object returned by parse_fcl_to_params

fclVars == <<fclPc, params, fclText, origin, parsed>>

VARIABLES
    \* the SQLite files and the HitTuningDB objects
    dbs,            \* file -> [hasTable, rows, seq]: the runs table and sqlite_sequence
    opened,         \* the files a HitTuningDB object holds an open connection to
    clock,          \* datetime.now(), in ticks
    call,           \* the last operation: its name, arguments and outcome
    resultsCalled,  \* file -> the run ids update_results has been called with (history)
    nops            \* the number of database operations performed so far

dbVars == <<dbs, opened, clock, call, resultsCalled, nops>>

VARIABLES
    \* the main script, over its invocations
    mainPc,         \* the statement the script is at; "idle" before, "ended" after
    args,           \* the parsed command line
    mainParams,     \* params: the fclParams object of the run
    runId,          \* run_id: the id add_run returned, 0 before
    version,        \* the version the interactive loop found free
    macroResults,   \* results: what galleryMC returned, <<>> before
    fclDir,         \* the versions v for which hitTuning_<tag>_<v>.fcl exists
    events,         \* history: what the script did to which row, in order
    invocations,    \* the number of times the script has been started
    ending          \* how the last invocation ended: "exit 0", "exit 1", "traceback"

mainVars == <<mainPc, args, mainParams, runId, version, macroResults, fclDir, events,
              invocations, ending>>

VARIABLES
    \* one call of createGrid
    gridPc,         \* "start", "returned", "reduced"
    defaultFirst,   \* the argument of the call of createGrid
    paramGrid,      \* the list createGrid returned
    listArg,        \* inputList: the argument of the call of reduceList
    reduced         \* what reduceList returned

gridVars == <<gridPc, defaultFirst, paramGrid, listArg, reduced>>

VARIABLES
    \* one call of _ensure_list3
    ensurePc,       \* "start", "returned", "raised"
    ensureArg,      \* v: the argument of the call
    ensured         \* what _ensure_list3 returned

ensureVars == <<ensurePc, ensureArg, ensured>>

vars == <<fclVars, dbVars, mainVars, gridVars, ensureVars>>

\* what the FCL steps leave alone
nonFclVars == <<dbVars, mainVars, gridVars, ensureVars>>

\* what the database steps leave alone
nonDbVars == <<fclVars, mainVars, gridVars, ensureVars>>

\* what createGrid leaves alone
nonGridVars == <<fclVars, dbVars, mainVars, ensureVars>>

\* what _ensure_list3 leaves alone
nonEnsureVars == <<fclVars, dbVars, mainVars, gridVars>>

(***************************************************************************)
(* fclParams                                                               *)
(***************************************************************************)
ArrayFields == {"roiThreshold", "minPulseHeight", "minPulseSigma", "LongMaxHits",
                "LongPulseWidth", "PulseHeightCuts", "PulseWidthCuts", "PulseRatioCuts"}

ScalarFields == {"MaxMultiHit", "Chi2NDF"}

Triple(a, b, c) == PyList(<<a, b, c>>)

\* the default arguments of fclParams.__init__
DefaultArgs ==
    [roiThreshold    |-> Triple(PyFloat(500), PyFloat(500), PyFloat(500)),
     minPulseHeight  |-> Triple(PyFloat(200), PyFloat(200), PyFloat(200)),
     minPulseSigma   |-> Triple(PyFloat(100), PyFloat(100), PyFloat(100)),
     LongMaxHits     |-> Triple(PyInt(1), PyInt(1), PyInt(1)),
     LongPulseWidth  |-> Triple(PyFloat(1000), PyFloat(1000), PyFloat(1000)),
     PulseHeightCuts |-> Triple(PyInt(3), PyInt(3), PyInt(3)),
     PulseWidthCuts  |-> Triple(PyInt(2), PyFloat(150), PyInt(1)),
     PulseRatioCuts  |-> Triple(PyFloat(35), PyFloat(40), PyFloat(20)),
     MaxMultiHit     |-> PyInt(5),
     Chi2NDF         |-> PyFloat(50000)]

\* fclParams.setList
setList(var) == IF ~IsList(var) THEN Triple(var, var, var) ELSE var

\* fclParams.__init__ with the keyword arguments a
fclParams(a) ==
    [roiThreshold    |-> setList(a.roiThreshold),
     minPulseHeight  |-> setList(a.minPulseHeight),
     minPulseSigma   |-> setList(a.minPulseSigma),
     LongMaxHits     |-> setList(a.LongMaxHits),
     LongPulseWidth  |-> setList(a.LongPulseWidth),
     PulseHeightCuts |-> setList(a.PulseHeightCuts),
     PulseWidthCuts  |-> setList(a.PulseWidthCuts),
     PulseRatioCuts  |-> setList(a.PulseRatioCuts),
     MaxMultiHit     |-> a.MaxMultiHit,
     Chi2NDF         |-> a.Chi2NDF]

\* _ensure_list3 raises IndexError (v[-1] of an empty list)
EnsureList3Raises(v) == IsList(v) /\ Len(v.items) = 0

\* a coercion that pads a short list with its first entry instead of its last
PadWithFirst(v) ==
    IF IsList(v)
    THEN IF Len(v.items) >= 3 THEN PyList(SubSeq(v.items, 1, 3))
         ELSE PyList(v.items \o [i \in 1..(3 - Len(v.items)) |-> v.items[1]])
    ELSE Triple(v, v, v)

\* _ensure_list3, where it returns
_ensure_list3(v) ==
    IF IsList(v)
    THEN IF Len(v.items) = 3 THEN v
         ELSE IF Len(v.items) = 1 THEN Triple(v.items[1], v.items[1], v.items[1])
         ELSE IF Len(v.items) > 3 THEN PyList(SubSeq(v.items, 1, 3))
         ELSE PyList(v.items \o [i \in 1..(3 - Len(v.items)) |-> v.items[Len(v.items)]])
    ELSE Triple(v, v, v)

\* the entries tried in the lists handed to _ensure_list3
EnsureEntries == {PyInt(7), PyFloat(250), PyFloat(-35)}

\* the arguments tried: scalars, and every list of up to MaxListLen + 1 entries
EnsureArgs ==
    EnsureEntries \cup {PyStr(<<"a">>)}
        \cup {PyList(l) : l \in UNION {[1..n -> EnsureEntries] : n \in 0..(MaxListLen + 1)}}

\* ensured = _ensure_list3(v)
EnsureList3Call ==
    /\ ensurePc = "start"
    /\ \E v \in EnsureArgs :
          /\ ensureArg' = v
          /\ IF EnsureList3Raises(v)
             THEN ensurePc' = "raised" /\ UNCHANGED ensured
             ELSE ensurePc' = "returned" /\ ensured' = _ensure_list3(v)
    /\ UNCHANGED nonEnsureVars

EnsureInit ==
    /\ ensurePc = "start"
    /\ ensureArg = PyList(<<>>)
    /\ ensured = PyList(<<>>)

(***************************************************************************)
(* FCL text: a sequence of lines "name: rhs", the name a dotted path       *)
(***************************************************************************)
FclLine(name, rhs) == [name |-> name, rhs |-> rhs]

\* the run of blanks the templates put after the colon
Pad == <<" ", " ">>

\* the keys parse_fcl_to_params reads, as dotted paths
KeyRoi0 == <<"HitFinderToolVec", "CandidateHitsPlane0", "RoiThreshold">>

KeyRoi1 == <<"HitFinderToolVec", "CandidateHitsPlane1", "RoiThreshold">>

KeyRoi2 == <<"HitFinderToolVec", "CandidateHitsPlane2", "RoiThreshold">>

KeyMph == <<"HitFilterAlg", "MinPulseHeight">>

KeyMps == <<"HitFilterAlg", "MinPulseSigma">>

KeyOf(field) == <<field>>

Keys == {KeyRoi0, KeyRoi1, KeyRoi2, KeyMph, KeyMps, KeyOf("LongMaxHits"),
         KeyOf("LongPulseWidth"), KeyOf("PulseHeightCuts"), KeyOf("PulseWidthCuts"),
         KeyOf("PulseRatioCuts"), KeyOf("MaxMultiHit"), KeyOf("Chi2NDF")}

\* re.escape(key) found right before the colon: the key ends the name
KeyMatch(key, name) ==
    /\ Len(key) <= Len(name)
    /\ SubSeq(name, Len(name) - Len(key) + 1, Len(name)) = key

\* the longest prefix without '#'
UpToHash(cs) ==
    IF \A i \in 1..Len(cs) : cs[i] # "#" THEN cs
    ELSE SubSeq(cs, 1, (CHOOSE i \in 1..Len(cs) : cs[i] = "#" /\ \A j \in 1..(i - 1) : cs[j] # "#") - 1)

\* the group ([^\n#]+) after \s*:\s* on one line; <<>> when the line has no match
Captured(rhs) ==
    LET c == UpToHash(LStrip(rhs))
    IN  IF c # <<>> THEN c
        ELSE IF StartsWith(rhs, " ") THEN <<" ">>
        ELSE <<>>

LineMatches(key, line) == KeyMatch(key, line.name) /\ Captured(line.rhs) # <<>>

RECURSIVE get_all_values(_, _)
\* re.findall over the text, each match parsed, in file order
get_all_values(key, text) ==
    IF text = <<>> THEN <<>>
    ELSE (IF LineMatches(key, Head(text))
          THEN <<_parse_value(Strip(Captured(Head(text).rhs)))>>
          ELSE <<>>) \o get_all_values(key, Tail(text))

\* the slip of taking the first match: matches[0] if matches else default
FirstOr(matches, default) == IF matches # <<>> THEN matches[1] ELSE default

\* matches[-1] if matches else default
LastOr(matches, default) == IF matches # <<>> THEN matches[Len(matches)] ELSE default

\* the seven values parse_fcl_to_params hands to _ensure_list3 besides roiThreshold
ParsedRaw(text) ==
    [minPulseHeight  |-> LastOr(get_all_values(KeyMph, text), PyFloat(200)),
     minPulseSigma   |-> LastOr(get_all_values(KeyMps, text), PyFloat(100)),
     LongMaxHits     |-> LastOr(get_all_values(KeyOf("LongMaxHits"), text), PyInt(1)),
     LongPulseWidth  |-> LastOr(get_all_values(KeyOf("LongPulseWidth"), text), PyFloat(1000)),
     PulseHeightCuts |-> LastOr(get_all_values(KeyOf("PulseHeightCuts"), text), PyInt(3)),
     PulseWidthCuts  |-> LastOr(get_all_values(KeyOf("PulseWidthCuts"), text), PyInt(2)),
     PulseRatioCuts  |-> LastOr(get_all_values(KeyOf("PulseRatioCuts"), text), PyFloat(35))]

\* parse_fcl_to_params raises: one of the _ensure_list3 calls does
ParseRaises(text) ==
    \E f \in DOMAIN ParsedRaw(text) : EnsureList3Raises(ParsedRaw(text)[f])

\* parse_fcl_to_params, where it returns
parse_fcl_to_params(text) ==
    LET raw == ParsedRaw(text)
    IN  fclParams(
          [roiThreshold    |-> _ensure_list3(PyList(<<
                                   LastOr(get_all_values(KeyRoi0, text), PyFloat(500)),
                                   LastOr(get_all_values(KeyRoi1, text), PyFloat(500)),
                                   LastOr(get_all_values(KeyRoi2, text), PyFloat(500))>>)),
           minPulseHeight  |-> _ensure_list3(raw.minPulseHeight),
           minPulseSigma   |-> _ensure_list3(raw.minPulseSigma),
           LongMaxHits     |-> _ensure_list3(raw.LongMaxHits),
           LongPulseWidth  |-> _ensure_list3(raw.LongPulseWidth),
           PulseHeightCuts |-> _ensure_list3(raw.PulseHeightCuts),
           PulseWidthCuts  |-> _ensure_list3(raw.PulseWidthCuts),
           PulseRatioCuts  |-> _ensure_list3(raw.PulseRatioCuts),
           MaxMultiHit     |-> LastOr(get_all_values(KeyOf("MaxMultiHit"), text), PyInt(5)),
           Chi2NDF         |-> LastOr(get_all_values(KeyOf("Chi2NDF"), text), PyFloat(50000))])

(***************************************************************************)
(* generateFCL and generateFCLMC                                           *)
(***************************************************************************)
\* the four hit-finder producers, in the order both templates list them
Producers == <<"gaushit2dTPCEE", "gaushit2dTPCEW", "gaushit2dTPCWE", "gaushit2dTPCWW">>

\* the twelve parameter lines the templates write for one producer
ProducerBlock(p, prod) ==
    LET pre == <<"icarus_stage1_producers", prod>>
        L(key, v) == FclLine(pre \o key, Pad \o PyStrOf(v))
    IN  << L(KeyRoi0, p.roiThreshold.items[1]),
           L(KeyRoi1, p.roiThreshold.items[2]),
           L(KeyRoi2, p.roiThreshold.items[3]),
           L(KeyMph, p.minPulseHeight),
           L(KeyMps, p.minPulseSigma),
           L(KeyOf("LongMaxHits"), p.LongMaxHits),
           L(KeyOf("LongPulseWidth"), p.LongPulseWidth),
           L(KeyOf("PulseHeightCuts"), p.PulseHeightCuts),
           L(KeyOf("PulseWidthCuts"), p.PulseWidthCuts),
           L(KeyOf("PulseRatioCuts"), p.PulseRatioCuts),
           L(KeyOf("MaxMultiHit"), p.MaxMultiHit),
           L(KeyOf("Chi2NDF"), p.Chi2NDF) >>

ParamLines(p) ==
    ProducerBlock(p, Producers[1]) \o ProducerBlock(p, Producers[2])
        \o ProducerBlock(p, Producers[3]) \o ProducerBlock(p, Producers[4])

\* the f-string indexes roiThreshold[0..2]: a shorter list raises IndexError
GenerateRaises(p) == Len(p.roiThreshold.items) < 3

\* the lines of generateFCL's template that carry a colon
generateFCL(p) ==
    <<FclLine(<<"rns">>, <<"{", "m", ":", " ", "R", " ", "}">>)>>
    \o ParamLines(p)
    \o <<FclLine(<<"physics", "producers", "gaushit2dTPCWW", "CalDataModuleLabel">>,
                 Pad \o <<"\"", "w", ":", "P", "\"">>),
         FclLine(<<"physics", "outana">>, Pad \o <<"[", " ", "]">>),
         FclLine(<<"physics", "end_paths">>, <<" ", "[", " ", "o", ",", " ", "s", " ", "]">>)>>

\* the lines of generateFCLMC's template that carry a colon
generateFCLMC(p) ==
    <<FclLine(<<"process_name">>, <<" ", "M", "C">>)>>
    \o ParamLines(p)
    \o <<FclLine(<<"icarus_stage1_producers", "gaushit2dTPCWW", "CalDataModuleLabel">>,
                 Pad \o <<"\"", "w", ":", "P", "\"">>),
         FclLine(<<"icarus_stage1_producers", "cluster3DCryoW", "Hit3DBuilderAlg", "PulseHeightFraction">>,
                 Pad \o <<"0", ".", " ", "#", "0", ".", "7", "5">>),
         FclLine(<<"icarus_stage1_producers", "cluster3DCryoW", "Hit3DBuilderAlg", "MaxHitChiSquare">>,
                 Pad \o <<"1", "0", "0", "0", "0", "0", "0", ".">>),
         FclLine(<<"#physics", "producers", "gaushit2dTPCEE", "module_type">>, <<" ", "G">>),
         FclLine(<<"physics", "producers", "mcreco", "UseSimEnergyDeposit">>, <<" ", "f", "a", "l", "s", "e">>),
         FclLine(<<"physics", "outana">>, Pad \o <<"[", " ", "]">>),
         FclLine(<<"physics", "end_paths">>, <<" ", "[", " ", "o", ",", " ", "s", " ", "]">>)>>


(***************************************************************************)
(* The FCL operations as steps: construct, generate, write by hand, parse  *)
(***************************************************************************)
\* arguments tried for a per-plane parameter: scalars and lists of 0..4 entries
ArrayArgVals ==
    {PyInt(3), PyFloat(250), PyFloat(-35), PyInf(1),
     PyList(<<>>), PyList(<<PyInt(7)>>), PyList(<<PyInt(1), PyFloat(250)>>),
     Triple(PyInt(2), PyFloat(150), PyInt(1)), Triple(PyInf(1), PyInt(1), PyInt(2)),
     PyList(<<PyInt(1), PyInt(2), PyInt(3), PyInt(4)>>)}

\* arguments tried for MaxMultiHit and Chi2NDF
ScalarArgVals == {PyInt(10), PyInt(-1), PyFloat(250000), PyFloat(5), PyInf(1)}

\* right-hand sides tried in hand-written FCL lines
RhsSet ==
    {<<" ", "3">>,
     <<" ", "[", "1", ",", " ", "2", "]">>,
     <<" ", "2", ".", "5", " ", "#", "9">>,
     <<" ", "[", "]">>}

\* lines tried in a hand-written FCL text about key: the key with each
\* right-hand side, under two prefixes, and a line of another key
HandLines(key) ==
    {FclLine(<<"a">> \o key, r) : r \in RhsSet}
        \cup {FclLine(IF key = KeyOf("Chi2NDF") THEN KeyOf("MaxMultiHit") ELSE KeyOf("Chi2NDF"),
                      <<" ", "7">>)}

DefaultParams == fclParams(DefaultArgs)

\* an fclParams object has been built by the constructor
ParamsBuilt == fclPc # "start" /\ origin # "hand"

\* p = fclParams(field = v)
Construct ==
    /\ fclPc = "start"
    /\ \E f \in ArrayFields \cup ScalarFields :
         \E v \in (IF f \in ArrayFields THEN ArrayArgVals ELSE ScalarArgVals) :
            params' = fclParams([DefaultArgs EXCEPT ![f] = v])
    /\ fclPc' = "constructed"
    /\ UNCHANGED <<fclText, origin, parsed>>
    /\ UNCHANGED nonFclVars

\* generateFCL(params, outputFile)
GenerateFCL ==
    /\ fclPc = "constructed"
    /\ IF GenerateRaises(params)
       THEN fclPc' = "raised" /\ UNCHANGED <<fclText, origin>>
       ELSE fclPc' = "generated" /\ fclText' = generateFCL(params) /\ origin' = "generateFCL"
    /\ UNCHANGED <<params, parsed>>
    /\ UNCHANGED nonFclVars

\* generateFCLMC(params, outputFile)
GenerateFCLMC ==
    /\ fclPc = "constructed"
    /\ IF GenerateRaises(params)
       THEN fclPc' = "raised" /\ UNCHANGED <<fclText, origin>>
       ELSE fclPc' = "generated" /\ fclText' = generateFCLMC(params) /\ origin' = "generateFCLMC"
    /\ UNCHANGED <<params, parsed>>
    /\ UNCHANGED nonFclVars

\* an FCL file written by other means than the generators
WriteText ==
    /\ fclPc = "start"
    /\ \E key \in Keys : \E n \in 1..MaxLines :
         \E t \in [1..n -> HandLines(key)] : fclText' = t
    /\ fclPc' = "written"
    /\ origin' = "hand"
    /\ UNCHANGED <<params, parsed>>
    /\ UNCHANGED nonFclVars

\* parsed = parse_fcl_to_params(fcl_path)
Parse ==
    /\ fclPc \in {"generated", "written"}
    /\ IF ParseRaises(fclText)
       THEN fclPc' = "raised" /\ UNCHANGED parsed
       ELSE fclPc' = "parsed" /\ parsed' = parse_fcl_to_params(fclText)
    /\ UNCHANGED <<params, fclText, origin>>
    /\ UNCHANGED nonFclVars

FclInit ==
    /\ fclPc = "start"
    /\ params = DefaultParams
    /\ fclText = <<>>
    /\ origin = "none"
    /\ parsed = DefaultParams

(***************************************************************************)
(* reduceList and createGrid                                               *)
(***************************************************************************)
\* a one-element candidate [x], as createGrid writes it
One(x) == PyList(<<x>>)

v_roiThreshold == <<One(PyFloat(600)), One(PyFloat(500)), One(PyFloat(400)),
                    One(PyFloat(300)), One(PyFloat(200)), One(PyFloat(100))>>

v_minPulseHeight == <<One(PyFloat(200))>>

v_minPulseSigma == <<One(PyFloat(100))>>

v_LongMaxHits == <<One(PyInt(1)), One(PyInt(5)), One(PyInt(10)), One(PyInt(15))>>

v_LongPulseWidth == <<One(PyFloat(200)), One(PyFloat(500)), One(PyFloat(800))>>

v_PulseHeightCuts == <<One(PyInt(2)), One(PyInt(3))>>

v_PulseWidthCuts == <<Triple(PyInt(2), PyFloat(150), PyInt(1))>>

v_PulseRatioCuts == <<Triple(PyFloat(35), PyFloat(40), PyFloat(20))>>

v_MaxMultiHit == <<One(PyInt(5)), One(PyInt(7)), One(PyInt(10)), One(PyInt(12))>>

v_Chi2NDF == <<One(PyFloat(50000)), One(PyFloat(100000)), One(PyFloat(150000)),
               One(PyFloat(200000)), One(PyFloat(250000))>>

\* the candidate lists in the order they are handed to product
Candidates ==
    <<v_roiThreshold, v_minPulseHeight, v_minPulseSigma, v_LongMaxHits, v_LongPulseWidth,
      v_PulseHeightCuts, v_PulseWidthCuts, v_PulseRatioCuts, v_MaxMultiHit, v_Chi2NDF>>

\* the slip of handing every candidate on as the list it is
keepList(inputList) == inputList

\* reduceList: the element of a one-element list, any other list as it is
reduceList(inputList) ==
    IF Len(inputList.items) = 1 THEN inputList.items[1] ELSE inputList

\* the fclParams object the loop body builds from the combination at index i
ComboParams(i) ==
    fclParams(
      [roiThreshold    |-> reduceList(Candidates[1][i[1]]),
       minPulseHeight  |-> reduceList(Candidates[2][i[2]]),
       minPulseSigma   |-> reduceList(Candidates[3][i[3]]),
       LongMaxHits     |-> reduceList(Candidates[4][i[4]]),
       LongPulseWidth  |-> reduceList(Candidates[5][i[5]]),
       PulseHeightCuts |-> reduceList(Candidates[6][i[6]]),
       PulseWidthCuts  |-> reduceList(Candidates[7][i[7]]),
       PulseRatioCuts  |-> reduceList(Candidates[8][i[8]]),
       MaxMultiHit     |-> reduceList(Candidates[9][i[9]]),
       Chi2NDF         |-> reduceList(Candidates[10][i[10]])])

RECURSIVE Product(_, _)
RECURSIVE OverList(_, _, _)
\* the loop over product(...), which is the nest of one for loop per list,
\* the first list outermost: prefix holds the indexes chosen in the lists
\* before list k; the loop body appends one fclParams object per combination
Product(k, prefix) ==
    IF k > Len(Candidates) THEN <<ComboParams(prefix)>> ELSE OverList(k, 1, prefix)

\* the passes of the loop over list k from its j-th candidate on
OverList(k, j, prefix) ==
    IF j > Len(Candidates[k]) THEN <<>>
    ELSE Product(k + 1, Append(prefix, j)) \o OverList(k, j + 1, prefix)

\* createGrid(defaultFirst): the grid, with fclParams() inserted at index 0
\* if defaultFirst
createGrid(first) ==
    LET param_grid == Product(1, <<>>)
    IN  IF first THEN <<fclParams(DefaultArgs)>> \o param_grid ELSE param_grid

\* the entries tried in the lists handed to reduceList
ListEntries == {PyInt(1), PyInt(15), PyFloat(150), PyFloat(-35), PyFloat(600)}

\* the lists tried: every list of up to MaxListLen entries
ListArgs == UNION {[1..n -> ListEntries] : n \in 0..MaxListLen}

\* paramGrid = createGrid(defaultFirst)
CreateGridCall ==
    /\ gridPc = "start"
    /\ \E first \in BOOLEAN :
          /\ defaultFirst' = first
          /\ paramGrid' = createGrid(first)
    /\ gridPc' = "returned"
    /\ UNCHANGED <<listArg, reduced>>
    /\ UNCHANGED nonGridVars

\* reduced = reduceList(inputList)
ReduceListCall ==
    /\ gridPc = "start"
    /\ \E l \in ListArgs :
          /\ listArg' = PyList(l)
          /\ reduced' = reduceList(PyList(l))
    /\ gridPc' = "reduced"
    /\ UNCHANGED <<defaultFirst, paramGrid>>
    /\ UNCHANGED nonGridVars

GridInit ==
    /\ gridPc = "start"
    /\ defaultFirst = TRUE
    /\ paramGrid = <<>>
    /\ listArg = PyList(<<>>)
    /\ reduced = PyList(<<>>)

(***************************************************************************)
(* The runs table                                                          *)
(***************************************************************************)
\* hitTuning_<runNumber>.db, the files the grid jobs write through HitTuningDB
JobDbName(runNumber) == IF runNumber = 1 THEN "hitTuning_1.db" ELSE "hitTuning_2.db"

JobFiles == {JobDbName(1), JobDbName(2)}

\* hitTuning_<tag>.db, the file the main script opens first
TagDb == "hitTuning_tag.db"

\* the destination of the merges
MergeDests == {"merged.db"}

\* the files a merge can read: the job files, the destination, and a file
\* without the runs table
MergeSources == JobFiles \cup MergeDests \cup {"empty.db"}

DbFiles == MergeSources \cup {TagDb}

\* SQL NULL
NULL == "NULL"

\* the 24 ratio columns, in the order of CREATE TABLE, INSERT and UPDATE
RatioColumns ==
    <<"ratio_total", "ratio_total0", "ratio_total1", "ratio_total2",
      "ratio_ele", "ratio_ele0", "ratio_ele1", "ratio_ele2",
      "ratio_gamma", "ratio_gamma0", "ratio_gamma1", "ratio_gamma2",
      "ratio_mu", "ratio_mu0", "ratio_mu1", "ratio_mu2",
      "ratio_p", "ratio_p0", "ratio_p1", "ratio_p2",
      "ratio_pi", "ratio_pi0", "ratio_pi1", "ratio_pi2">>

RatioNames == {RatioColumns[i] : i \in 1..Len(RatioColumns)}

\* the value add_run binds to every ratio column, in hundredths: -1
Sentinel == -100

\* the slip of initialising the ratios to 0 instead of -1
ZeroRatios == [c \in RatioNames |-> 0]

\* the 24 trailing values of add_run's INSERT
InitialRatios == [c \in RatioNames |-> Sentinel]

\* a database file without the runs table
NoTable == [hasTable |-> FALSE, rows |-> <<>>, seq |-> 0]

\* the slip of creating the table anew on every open
create_tables_fresh(db) == [hasTable |-> TRUE, rows |-> <<>>, seq |-> 0]

\* HitTuningDB.create_tables: CREATE TABLE IF NOT EXISTS runs (...)
create_tables(db) == IF db.hasTable THEN db ELSE [hasTable |-> TRUE, rows |-> <<>>, seq |-> 0]

RowIds(db) == {db.rows[i].id : i \in 1..Len(db.rows)}

SetMax(S) == IF S = {} THEN 0 ELSE CHOOSE m \in S : \A x \in S : x <= m

\* the slip of handing out the largest id in use once more
LastId(db) == SetMax(RowIds(db) \cup {db.seq})

\* the id INTEGER PRIMARY KEY AUTOINCREMENT gives the next inserted row
NextId(db) == SetMax(RowIds(db) \cup {db.seq}) + 1

\* INSERT of one row without an id: the row is appended with the next id
InsertRow(db, row) ==
    LET newid == NextId(db)
    IN  [hasTable |-> TRUE,
         rows     |-> Append(db.rows, [row EXCEPT !.id = newid]),
         seq      |-> newid]

\* the parameters whose columns are declared INTEGER; the others are REAL
IntegerColumns == {"LongMaxHits", "MaxMultiHit"}

\* what SQLite keeps of the number v bound to a column of parameter f: a
\* bool is bound as the int 1 or 0; a REAL column turns an int into a float;
\* an INTEGER column turns a float without a fractional part into an int and
\* keeps any other float; an infinite float is kept
Stored(v, f) ==
    IF v.tag \in {"int", "bool"}
    THEN IF f \in IntegerColumns THEN PyInt(v.h) ELSE PyFloat(100 * v.h)
    ELSE IF v.tag = "float" /\ f \in IntegerColumns /\ v.h % 100 = 0 THEN PyInt(v.h \div 100)
    ELSE v

\* the columns X_0, X_1, X_2 of the per-plane parameter X: params.X[0..2]
PlaneColumns(p, f) == [i \in 1..3 |-> Stored(p[f].items[i], f)]

\* the slip of binding minPulseSigma to the minPulseHeight columns and back
ParamColumnsSwapped(p) ==
    [roiThreshold    |-> PlaneColumns(p, "roiThreshold"),
     minPulseHeight  |-> PlaneColumns(p, "minPulseSigma"),
     minPulseSigma   |-> PlaneColumns(p, "minPulseHeight"),
     LongMaxHits     |-> PlaneColumns(p, "LongMaxHits"),
     LongPulseWidth  |-> PlaneColumns(p, "LongPulseWidth"),
     PulseHeightCuts |-> PlaneColumns(p, "PulseHeightCuts"),
     PulseWidthCuts  |-> PlaneColumns(p, "PulseWidthCuts"),
     PulseRatioCuts  |-> PlaneColumns(p, "PulseRatioCuts"),
     MaxMultiHit     |-> Stored(p.MaxMultiHit, "MaxMultiHit"),
     Chi2NDF         |-> Stored(p.Chi2NDF, "Chi2NDF")]

\* the 26 parameter columns of a row, taken from params as add_run indexes it
ParamColumns(p) ==
    [roiThreshold    |-> PlaneColumns(p, "roiThreshold"),
     minPulseHeight  |-> PlaneColumns(p, "minPulseHeight"),
     minPulseSigma   |-> PlaneColumns(p, "minPulseSigma"),
     LongMaxHits     |-> PlaneColumns(p, "LongMaxHits"),
     LongPulseWidth  |-> PlaneColumns(p, "LongPulseWidth"),
     PulseHeightCuts |-> PlaneColumns(p, "PulseHeightCuts"),
     PulseWidthCuts  |-> PlaneColumns(p, "PulseWidthCuts"),
     PulseRatioCuts  |-> PlaneColumns(p, "PulseRatioCuts"),
     MaxMultiHit     |-> Stored(p.MaxMultiHit, "MaxMultiHit"),
     Chi2NDF         |-> Stored(p.Chi2NDF, "Chi2NDF")]

\* add_run raises IndexError: params.X[2] of an array shorter than 3
AddRunRaises(p) == \E f \in ArrayFields : Len(p[f].items) < 3

\* the row add_run inserts; via is history: which operation wrote the row
NewRow(p, jobNum, timestamp, fcl_filename, output_filename, hist_filename, notes) ==
    [id              |-> 0,
     jobNum          |-> jobNum,
     timestamp       |-> timestamp,
     fcl_filename    |-> fcl_filename,
     output_filename |-> output_filename,
     hist_filename   |-> hist_filename,
     par             |-> ParamColumns(p),
     notes           |-> notes,
     ratio           |-> InitialRatios,
     via             |-> "add_run"]

\* UPDATE runs SET column = value WHERE id = run_id
UpdateWhereId(db, run_id, column, value) ==
    [db EXCEPT !.rows =
        [i \in 1..Len(db.rows) |->
            IF db.rows[i].id = run_id THEN [db.rows[i] EXCEPT ![column] = value]
            ELSE db.rows[i]]]

\* the slip of an update that changes nothing
update_nothing(db, run_id, output_filename) == db

\* HitTuningDB.update_output_filename
update_output_filename(db, run_id, output_filename) ==
    UpdateWhereId(db, run_id, "output_filename", output_filename)

\* the slip of an UPDATE without its WHERE clause
update_hist_of_all(db, run_id, hist_filename) ==
    [db EXCEPT !.rows = [i \in 1..Len(db.rows) |-> [db.rows[i] EXCEPT !.hist_filename = hist_filename]]]

\* HitTuningDB.update_hist_filename
update_hist_filename(db, run_id, hist_filename) ==
    UpdateWhereId(db, run_id, "hist_filename", hist_filename)

\* the slip of binding the four values of a species one slot late
ResultsBindingShifted(results) ==
    [c \in RatioNames |->
        LET k == CHOOSE i \in 1..Len(RatioColumns) : RatioColumns[i] = c
        IN  results[((k - 1) \div 4) + 1][(k % 4) + 1]]

\* the column the k-th bound value of update_results goes to, and the entry
\* of results bound there: results[(k-1) div 4][(k-1) mod 4]
ResultsBinding(results) ==
    [c \in RatioNames |->
        LET k == CHOOSE i \in 1..Len(RatioColumns) : RatioColumns[i] = c
        IN  results[((k - 1) \div 4) + 1][((k - 1) % 4) + 1]]

\* HitTuningDB.update_results
update_results(db, run_id, results) ==
    UpdateWhereId(db, run_id, "ratio", ResultsBinding(results))

(***************************************************************************)
(* The queries                                                             *)
(***************************************************************************)
\* the columns of a row, as SELECT * returns them (via is history, no column)
Columns(row) ==
    [id |-> row.id, jobNum |-> row.jobNum, timestamp |-> row.timestamp,
     fcl_filename |-> row.fcl_filename, output_filename |-> row.output_filename,
     hist_filename |-> row.hist_filename, par |-> row.par, notes |-> row.notes,
     ratio |-> row.ratio]

\* cursor.fetchall() of a SELECT * that keeps the rows at the positions keep
Select(rows, keep) ==
    LET kept == SelectSeq([i \in 1..Len(rows) |-> i], LAMBDA i : i \in keep)
    IN  [j \in 1..Len(kept) |-> Columns(rows[kept[j]])]

\* cursor.fetchone(): the first row, or None; None is <<>> and a row r is <<r>>
fetchone(result) == IF result = <<>> THEN <<>> ELSE <<Head(result)>>

\* HitTuningDB.get_run: SELECT * FROM runs WHERE id = ?
get_run(db, run_id) ==
    fetchone(Select(db.rows, {i \in 1..Len(db.rows) : db.rows[i].id = run_id}))

\* the orders of n rows: the permutations of 1..n
Orders(n) == {o \in [1..n -> 1..n] : \A i, j \in 1..n : o[i] = o[j] => i = j}

\* the slip of ORDER BY timestamp ASC
OrderByTimestampAsc(rows) ==
    {[j \in 1..Len(rows) |-> Columns(rows[o[j]])] : o \in
        {q \in Orders(Len(rows)) :
            \A j \in 1..(Len(rows) - 1) : rows[q[j]].timestamp <= rows[q[j + 1]].timestamp}}

\* SELECT * FROM runs ORDER BY timestamp DESC: the results SQLite may give;
\* rows of equal timestamp come in an order SQL leaves open.  The timestamps
\* are datetime.now().isoformat() texts of one format, whose order as text
\* is their order in time, the ticks here
OrderByTimestampDesc(rows) ==
    {[j \in 1..Len(rows) |-> Columns(rows[o[j]])] : o \in
        {q \in Orders(Len(rows)) :
            \A j \in 1..(Len(rows) - 1) : rows[q[j]].timestamp >= rows[q[j + 1]].timestamp}}

\* HitTuningDB.get_all_runs: the results it may return
get_all_runs(db) == OrderByTimestampDesc(db.rows)

\* the columns tried as keyword arguments of search_runs
SearchKeys == {"jobNum", "output_filename"}

\* the keyword arguments tried: keys is the set of keywords, val their
\* values (None is NULL); a keyword left out has the first value
KwargsSet ==
    {kw \in [keys : SUBSET SearchKeys,
             val : [jobNum : {1, 2}, output_filename : {NULL, "out.root"}]] :
        /\ "jobNum" \notin kw.keys => kw.val.jobNum = 1
        /\ "output_filename" \notin kw.keys => kw.val.output_filename = NULL}

\* the SQL comparison column = ? on a nullable text column: true only if
\* neither side is NULL
SqlTextEquals(column, value) == column # NULL /\ value # NULL /\ column = value

\* WHERE 1=1 AND key = ? for every keyword; jobNum is NOT NULL
Where(row, kwargs) ==
    /\ "jobNum" \in kwargs.keys => row.jobNum = kwargs.val.jobNum
    /\ "output_filename" \in kwargs.keys =>
           SqlTextEquals(row.output_filename, kwargs.val.output_filename)

\* HitTuningDB.search_runs
search_runs(db, kwargs) ==
    Select(db.rows, {i \in 1..Len(db.rows) : Where(db.rows[i], kwargs)})

(***************************************************************************)
(* merge_sqlite_dbs                                                        *)
(***************************************************************************)
RECURSIVE InsertSelect(_, _)
\* INSERT INTO runs (all columns but id) SELECT them FROM src.runs
InsertSelect(dest, srcRows) ==
    IF srcRows = <<>> THEN dest
    ELSE InsertSelect(InsertRow(dest, [Head(srcRows) EXCEPT !.via = "merge"]), Tail(srcRows))

RECURSIVE MergeLoop(_, _, _, _)
\* the loop over db_files: a file without the table is "skipped" by DETACH
\* and continue, and the finally clause then detaches again, which raises;
\* the destination attached to itself cannot be written, which raises; what
\* was committed for the files before stays
MergeLoop(files, destName, dest, all) ==
    IF files = <<>> THEN [db |-> dest, outcome |-> "returned"]
    ELSE LET path == Head(files)
         IN  IF path = destName THEN [db |-> dest, outcome |-> "raised locked"]
             ELSE IF ~all[path].hasTable THEN [db |-> dest, outcome |-> "raised detach"]
             ELSE MergeLoop(Tail(files), destName, InsertSelect(dest, all[path].rows), all)

\* merge_sqlite_dbs(db_files, dest_db, "runs", conflict): the destination
\* after the call and how the call ended; conflict only selects a verb that
\* no statement uses
merge_sqlite_dbs(db_files, dest_db, conflict, all) ==
    IF db_files = <<>> THEN [db |-> all[dest_db], outcome |-> "returned"]
    ELSE IF ~all[dest_db].hasTable /\ ~all[db_files[1]].hasTable
    THEN [db |-> all[dest_db], outcome |-> "raised schema"]
    ELSE MergeLoop(db_files, dest_db, create_tables(all[dest_db]), all)

(***************************************************************************)
(* The database operations as steps                                        *)
(***************************************************************************)
\* a call: given holds the arguments besides run_id, result the rows a
\* query returned
NoCall ==
    [op |-> "none", file |-> "", run_id |-> 0, outcome |-> "", srcs |-> <<>>, conflict |-> "",
     given |-> <<>>, result |-> <<>>]

Called(op, file, run_id, outcome) ==
    [op |-> op, file |-> file, run_id |-> run_id, outcome |-> outcome, srcs |-> <<>>,
     conflict |-> "", given |-> <<>>, result |-> <<>>]

\* parameters with ints in REAL columns, floats and a bool in INTEGER
\* columns, an infinite float, and different values in every array
MixedParams ==
    fclParams([DefaultArgs EXCEPT
        !.roiThreshold   = Triple(PyInt(6), PyFloat(250), PyInf(1)),
        !.minPulseHeight = Triple(PyFloat(300), PyFloat(400), PyFloat(500)),
        !.minPulseSigma  = Triple(PyFloat(110), PyFloat(120), PyFloat(130)),
        !.LongMaxHits    = Triple(PyFloat(500), PyInt(7), PyBool(TRUE)),
        !.MaxMultiHit    = PyFloat(250),
        !.Chi2NDF        = PyInt(3)])

\* the parameter sets tried: the default, one whose LongMaxHits has one
\* entry, and the mixed one
RunParams ==
    {DefaultParams, fclParams([DefaultArgs EXCEPT !.LongMaxHits = PyList(<<PyInt(7)>>)]),
     MixedParams}

\* the argument lists tried for add_run: the optional arguments left out with
\* the first two parameter sets (None, here NULL), and given with the third
AddRunArgs ==
    {[params |-> p, jobNum |-> 1, fcl_filename |-> "run.fcl", output_filename |-> NULL,
      hist_filename |-> NULL, notes |-> NULL] : p \in RunParams \ {MixedParams}}
    \cup {[params |-> MixedParams, jobNum |-> 2, fcl_filename |-> "mixed.fcl",
           output_filename |-> "early.root", hist_filename |-> "early_hist.root",
           notes |-> "n"]}

\* a 6x4 matrix with 24 different entries, in hundredths
ResultsA == [sp \in 1..6 |-> [k \in 1..4 |-> 10 * sp + k]]

ResultsSet == {ResultsA}

\* the run ids tried in updates: those of rows that can exist, and one more
RunIds == 1..(MaxRows + 1)

\* one more operation, while the behaviour may grow
Step == nops < MaxOps /\ nops' = nops + 1

\* db = HitTuningDB(f): connect and create_tables
Open(f) ==
    /\ Step
    /\ dbs' = [dbs EXCEPT ![f] = create_tables(dbs[f])]
    /\ opened' = opened \cup {f}
    /\ call' = Called("open", f, 0, "returned")
    /\ UNCHANGED <<clock, resultsCalled>>
    /\ UNCHANGED nonDbVars

\* db.close()
Close(f) ==
    /\ Step
    /\ f \in opened
    /\ opened' = opened \ {f}
    /\ call' = Called("close", f, 0, "returned")
    /\ UNCHANGED <<dbs, clock, resultsCalled>>
    /\ UNCHANGED nonDbVars

\* run_id = db.add_run(params, jobNum, fcl_filename, notes="")
AddRun(f) ==
    /\ Step
    /\ f \in opened
    /\ Len(dbs[f].rows) < MaxRows
    /\ \E a \in AddRunArgs : \E t \in {clock + 1} :
          IF AddRunRaises(a.params)
          THEN /\ call' = [Called("add_run", f, 0, "raised") EXCEPT !.given = a]
               /\ UNCHANGED <<dbs, clock>>
          ELSE /\ dbs' = [dbs EXCEPT ![f] =
                            InsertRow(dbs[f], NewRow(a.params, a.jobNum, t, a.fcl_filename,
                                                     a.output_filename, a.hist_filename, a.notes))]
               /\ clock' = t
               /\ call' = [Called("add_run", f, NextId(dbs[f]), "returned") EXCEPT !.given = a]
    /\ UNCHANGED <<opened, resultsCalled>>
    /\ UNCHANGED nonDbVars

\* db.update_output_filename(run_id, output_filename)
UpdateOutputFilename(f) ==
    /\ Step
    /\ f \in opened
    /\ \E run_id \in RunIds : \E name \in {"out.root"} :
          /\ dbs' = [dbs EXCEPT ![f] = update_output_filename(dbs[f], run_id, name)]
          /\ call' = [Called("update_output_filename", f, run_id, "returned") EXCEPT !.given = name]
    /\ UNCHANGED <<opened, clock, resultsCalled>>
    /\ UNCHANGED nonDbVars

\* db.update_hist_filename(run_id, hist_filename)
UpdateHistFilename(f) ==
    /\ Step
    /\ f \in opened
    /\ \E run_id \in RunIds : \E name \in {"hist.root"} :
          /\ dbs' = [dbs EXCEPT ![f] = update_hist_filename(dbs[f], run_id, name)]
          /\ call' = [Called("update_hist_filename", f, run_id, "returned") EXCEPT !.given = name]
    /\ UNCHANGED <<opened, clock, resultsCalled>>
    /\ UNCHANGED nonDbVars

\* db.update_results(run_id, results)
UpdateResults(f) ==
    /\ Step
    /\ f \in opened
    /\ \E run_id \in RunIds : \E results \in ResultsSet :
          /\ dbs' = [dbs EXCEPT ![f] = update_results(dbs[f], run_id, results)]
          /\ resultsCalled' = [resultsCalled EXCEPT ![f] = @ \cup {run_id}]
          /\ call' = [Called("update_results", f, run_id, "returned") EXCEPT !.given = results]
    /\ UNCHANGED <<opened, clock>>
    /\ UNCHANGED nonDbVars

\* row = db.get_run(run_id)
GetRun(f) ==
    /\ Step
    /\ f \in opened
    /\ \E run_id \in RunIds :
          call' = [Called("get_run", f, run_id, "returned") EXCEPT
                      !.result = get_run(dbs[f], run_id)]
    /\ UNCHANGED <<dbs, opened, clock, resultsCalled>>
    /\ UNCHANGED nonDbVars

\* all_runs = db.get_all_runs()
GetAllRuns(f) ==
    /\ Step
    /\ f \in opened
    /\ \E result \in get_all_runs(dbs[f]) :
          call' = [Called("get_all_runs", f, 0, "returned") EXCEPT !.result = result]
    /\ UNCHANGED <<dbs, opened, clock, resultsCalled>>
    /\ UNCHANGED nonDbVars

\* found = db.search_runs(**kwargs)
SearchRuns(f) ==
    /\ Step
    /\ f \in opened
    /\ \E kwargs \in KwargsSet :
          call' = [Called("search_runs", f, 0, "returned") EXCEPT
                      !.given = kwargs, !.result = search_runs(dbs[f], kwargs)]
    /\ UNCHANGED <<dbs, opened, clock, resultsCalled>>
    /\ UNCHANGED nonDbVars

\* the lists of source files tried: up to two files, repeats included
SourceLists == {<<>>} \cup {<<f>> : f \in MergeSources} \cup {<<f, g>> : f, g \in MergeSources}

\* merge_sqlite_dbs(db_files, dest_db, conflict=conflict)
Merge ==
    /\ Step
    /\ \E dest_db \in MergeDests : \E db_files \in SourceLists : \E conflict \in {"ignore", "replace"} :
         LET m == merge_sqlite_dbs(db_files, dest_db, conflict, dbs)
         IN  /\ Len(m.db.rows) <= MaxRows
             /\ dbs' = [dbs EXCEPT ![dest_db] = m.db]
             /\ call' = [Called("merge", dest_db, 0, m.outcome) EXCEPT
                             !.srcs = db_files, !.conflict = conflict]
    /\ UNCHANGED <<opened, clock, resultsCalled>>
    /\ UNCHANGED nonDbVars

(***************************************************************************)
(* The main script                                                         *)
(***************************************************************************)
\* the command lines tried: --createGrid, --runGrid with arguments that pass
\* the checks and with each argument that fails one, and the interactive mode
NoArgs ==
    [createGrid |-> FALSE, runGrid |-> FALSE, mc |-> FALSE, debug |-> FALSE,
     outputDir |-> "./fclFiles", fclFile |-> "", runNumber |-> 0, path |-> NULL]

GridArgs == [NoArgs EXCEPT !.runGrid = TRUE, !.outputDir = "out.root",
                           !.fclFile = "job.fcl", !.runNumber = 1, !.path = "."]

ArgsSet ==
    {[NoArgs EXCEPT !.createGrid = TRUE, !.mc = m, !.debug = d] : m, d \in BOOLEAN}
    \cup {[NoArgs EXCEPT !.mc = m, !.debug = d] : m, d \in BOOLEAN}
    \cup {GridArgs, [GridArgs EXCEPT !.outputDir = "out"],
          [GridArgs EXCEPT !.fclFile = ""], [GridArgs EXCEPT !.path = NULL]}

\* the contents tried for the file --fclFile names: a generated file, and a
\* file whose LongMaxHits is the empty list
JobFclTexts ==
    {generateFCLMC(DefaultParams),
     <<FclLine(KeyOf("LongMaxHits"), <<" ", "[", "]">>)>>}

\* what galleryMC returns when it returns: a 6x4 matrix, or one a row short
ResultsShort == [sp \in 1..5 |-> [k \in 1..4 |-> 10 * sp + k]]

MacroReturns == ResultsSet \cup {ResultsShort}

\* update_results raises IndexError: results[i][j] outside the matrix
UpdateResultsRaises(res) == Len(res) < 6 \/ \E i \in 1..Len(res) : Len(res[i]) < 4

\* the slip of writing the rows of a grid job to the database opened first
CurDbTag == TagDb

\* the database the name db is bound to while rows are written
CurDb == IF args.runGrid THEN JobDbName(args.runNumber) ELSE TagDb

\* one entry of the history
Event(ev, opt) ==
    [ev |-> ev, file |-> CurDb, id |-> runId, runGrid |-> args.runGrid, mc |-> args.mc,
     opt |-> opt, res |-> <<>>, inv |-> invocations]

\* the slip of analysing and storing the results before the output file is recorded
LoopBodySwapped == <<"generate", "add_run", "lar", "macro", "update_results", "update_output">>

\* the statements of the try block of the interactive loop, in source order
LoopBody == <<"generate", "add_run", "lar", "update_output", "macro", "update_results">>

\* the statement that follows pc in the try block; db.close() follows the loop
After(pc) ==
    LET i == CHOOSE k \in 1..Len(LoopBody) : LoopBody[k] = pc
    IN  IF i = Len(LoopBody) THEN "close" ELSE LoopBody[i + 1]

\* the names the interactive loop builds from the version
OutputFCL(v) == args.outputDir \o "/hitTuning_tag_" \o ToString(v) \o ".fcl"

OutputFile(v) == args.outputDir \o "/output_tag_" \o ToString(v) \o ".root"

HistFile(v) == args.outputDir \o "/hist_output_tag_" \o ToString(v) \o ".root"

\* the slip of numbering the new file by the number of files there are
FileCount == Cardinality(fclDir)

\* the smallest version whose FCL file does not exist
FreeVersion == CHOOSE v \in 0..Cardinality(fclDir) : v \notin fclDir /\ \A w \in 0..(v - 1) : w \in fclDir

\* run_id = db.add_run(params, jobNum, fcl, notes="") on the current database
DoAddRun(jobNum, fcl) ==
    /\ dbs' = [dbs EXCEPT ![CurDb] =
                  InsertRow(dbs[CurDb], NewRow(mainParams, jobNum, clock + 1, fcl, NULL, NULL, ""))]
    /\ clock' = clock + 1
    /\ runId' = NextId(dbs[CurDb])
    /\ events' = Append(events, [Event("add_run", "") EXCEPT !.id = NextId(dbs[CurDb])])

\* run(fcl, inputFile, outputFile, options): os.system of the lar command
DoRun(options) == events' = Append(events, Event("lar", IF options = NULL THEN "-n -1" ELSE options))

\* db.update_output_filename(run_id, outputFile), then get_all_runs
DoUpdateOutput(outputFile) ==
    /\ dbs' = [dbs EXCEPT ![CurDb] = update_output_filename(dbs[CurDb], runId, outputFile)]
    /\ events' = Append(events, Event("update_output_filename", outputFile))

\* db.update_results(run_id, results), where it returns
DoUpdateResults ==
    /\ dbs' = [dbs EXCEPT ![CurDb] = update_results(dbs[CurDb], runId, macroResults)]
    /\ resultsCalled' = [resultsCalled EXCEPT ![CurDb] = @ \cup {runId}]
    /\ events' = Append(events, Event("update_results", ""))

\* the process ends: its connections are closed with it
Ends(how) ==
    /\ mainPc' = "ended"
    /\ ending' = how
    /\ opened' = {}

\* the variables most statements of the script leave alone
MainFrame == UNCHANGED <<fclVars, gridVars, ensureVars, call, nops, args, invocations>>

\* args = parse_args(); MC = args.mc; fileSubStr = args.tag
ParseArgs ==
    /\ mainPc \in {"idle", "ended"}
    /\ invocations < MaxInvocations
    /\ invocations' = invocations + 1
    /\ args' \in ArgsSet
    /\ mainPc' = IF args'.createGrid THEN "createGrid" ELSE "open_db"
    /\ runId' = 0 /\ version' = 0 /\ macroResults' = <<>> /\ mainParams' = DefaultParams
    /\ ending' = "running"
    /\ UNCHANGED <<fclVars, dbVars, gridVars, ensureVars, fclDir, events>>

\* the --createGrid branch: paramGrid = createGrid(), and the first pass of
\* the loop reads outputDir, a name no statement has bound yet: NameError
CreateGridBranch ==
    /\ mainPc = "createGrid"
    /\ Ends("traceback")
    /\ UNCHANGED <<dbs, clock, resultsCalled, mainParams, runId, version, macroResults, fclDir, events>>
    /\ MainFrame

\* db = HitTuningDB(f"hitTuning_{fileSubStr}.db"), and the choice of inputFile
OpenTagDb ==
    /\ mainPc = "open_db"
    /\ dbs' = [dbs EXCEPT ![TagDb] = create_tables(dbs[TagDb])]
    /\ opened' = opened \cup {TagDb}
    /\ mainPc' = IF args.runGrid THEN "validate" ELSE "load_macro"
    /\ UNCHANGED <<clock, resultsCalled, mainParams, runId, version, macroResults, fclDir, events, ending>>
    /\ MainFrame

\* the four checks of the --runGrid arguments: of the output names tried
\* only "out.root" ends with '.root'; runNumber is an int, never None
Validate ==
    /\ mainPc = "validate"
    /\ IF \/ args.outputDir # "out.root"
          \/ args.fclFile = ""
          \/ args.path = NULL
       THEN Ends("exit 1")
       ELSE mainPc' = "load_macro_grid" /\ UNCHANGED <<opened, ending>>
    /\ UNCHANGED <<dbs, clock, resultsCalled, mainParams, runId, version, macroResults, fclDir, events>>
    /\ MainFrame

\* runGrid: load galleryMC.cpp from --path; FileNotFoundError when it is not there
LoadMacroGrid ==
    /\ mainPc = "load_macro_grid"
    /\ \E staged \in BOOLEAN :
          IF staged THEN mainPc' = "open_job_db" /\ UNCHANGED <<opened, ending, events>>
          ELSE /\ events' = Append(events, Event("raised", "FileNotFoundError"))
               /\ Ends("traceback")
    /\ UNCHANGED <<dbs, clock, resultsCalled, mainParams, runId, version, macroResults, fclDir>>
    /\ MainFrame

\* runGrid: db = HitTuningDB(f"hitTuning_{jobNum}.db")
OpenJobDb ==
    /\ mainPc = "open_job_db"
    /\ dbs' = [dbs EXCEPT ![CurDb] = create_tables(dbs[CurDb])]
    /\ opened' = opened \cup {CurDb}
    /\ mainPc' = "parse_fcl"
    /\ UNCHANGED <<clock, resultsCalled, mainParams, runId, version, macroResults, fclDir, events, ending>>
    /\ MainFrame

\* runGrid: params = parse_fcl_to_params(fclFile)
ParseJobFcl ==
    /\ mainPc = "parse_fcl"
    /\ \E text \in JobFclTexts :
          IF ParseRaises(text)
          THEN /\ events' = Append(events, Event("raised", "parse_fcl_to_params"))
               /\ Ends("traceback")
               /\ UNCHANGED mainParams
          ELSE /\ mainParams' = parse_fcl_to_params(text)
               /\ mainPc' = "add_run"
               /\ UNCHANGED <<opened, ending, events>>
    /\ UNCHANGED <<dbs, clock, resultsCalled, runId, version, macroResults, fclDir>>
    /\ MainFrame

\* runGrid: run_id = db.add_run(params, jobNum, fclFile, notes="")
AddRunGrid ==
    /\ mainPc = "add_run" /\ args.runGrid
    /\ DoAddRun(args.runNumber, args.fclFile)
    /\ mainPc' = "lar"
    /\ UNCHANGED <<opened, resultsCalled, mainParams, version, macroResults, fclDir, ending>>
    /\ MainFrame

\* runGrid: run(fclFile, inputFile, outputFile, options='-n 5')
RunLarGrid ==
    /\ mainPc = "lar" /\ args.runGrid
    /\ DoRun("-n 5")
    /\ mainPc' = "update_output"
    /\ UNCHANGED <<dbs, opened, clock, resultsCalled, mainParams, runId, version, macroResults, fclDir, ending>>
    /\ MainFrame

\* runGrid: db.update_output_filename(run_id, outputFile); get_all_runs
UpdateOutputGrid ==
    /\ mainPc = "update_output" /\ args.runGrid
    /\ DoUpdateOutput(args.outputDir)
    /\ mainPc' = "macro"
    /\ UNCHANGED <<opened, clock, resultsCalled, mainParams, runId, version, macroResults, fclDir, ending>>
    /\ MainFrame

\* runGrid: results = r.galleryMC(outputFile, histFile); an exception ends the script
GalleryMCGrid ==
    /\ mainPc = "macro" /\ args.runGrid
    /\ \/ \E res \in MacroReturns :
            /\ macroResults' = res
            /\ events' = Append(events, [Event("galleryMC", "") EXCEPT !.res = res])
            /\ mainPc' = "update_results"
            /\ UNCHANGED <<opened, ending>>
       \/ /\ events' = Append(events, Event("raised", "galleryMC"))
          /\ Ends("traceback")
          /\ UNCHANGED macroResults
    /\ UNCHANGED <<dbs, clock, resultsCalled, mainParams, runId, version, fclDir>>
    /\ MainFrame

\* runGrid: db.update_results(run_id, results); IndexError ends the script
UpdateResultsGrid ==
    /\ mainPc = "update_results" /\ args.runGrid
    /\ IF UpdateResultsRaises(macroResults)
       THEN /\ events' = Append(events, Event("raised", "update_results"))
            /\ Ends("traceback")
            /\ UNCHANGED <<dbs, resultsCalled>>
       ELSE /\ DoUpdateResults
            /\ mainPc' = "close"
            /\ UNCHANGED <<opened, ending>>
    /\ UNCHANGED <<clock, mainParams, runId, version, macroResults, fclDir>>
    /\ MainFrame

\* runGrid: db.close(); sys.exit(0)
CloseGrid ==
    /\ mainPc = "close" /\ args.runGrid
    /\ Ends("exit 0")
    /\ UNCHANGED <<dbs, clock, resultsCalled, mainParams, runId, version, macroResults, fclDir, events>>
    /\ MainFrame

\* interactive: load the macro, make outputDir, build defaultParams;
\* paramGrid = [defaultParams], so the loop has one pass
LoadMacroInteractive ==
    /\ mainPc = "load_macro"
    /\ mainParams' = fclParams([DefaultArgs EXCEPT
                         !.LongMaxHits = Triple(PyInt(3), PyInt(3), PyInt(3)),
                         !.MaxMultiHit = PyInt(10),
                         !.roiThreshold = Triple(PyFloat(200), PyFloat(200), PyFloat(200)),
                         !.LongPulseWidth = Triple(PyFloat(500), PyFloat(500), PyFloat(500)),
                         !.Chi2NDF = PyFloat(250000)])
    /\ mainPc' = LoopBody[1]
    /\ UNCHANGED <<dbs, opened, clock, resultsCalled, runId, version, macroResults, fclDir, events, ending>>
    /\ MainFrame

\* interactive: find the first free version and write the FCL file there
GenerateInteractive ==
    /\ mainPc = "generate"
    /\ version' = FreeVersion
    /\ fclDir' = fclDir \cup {FreeVersion}
    /\ mainPc' = After("generate")
    /\ UNCHANGED <<dbs, opened, clock, resultsCalled, mainParams, runId, macroResults, events, ending>>
    /\ MainFrame

\* interactive: run_id = db.add_run(params, args.runNumber, outputFCL, notes="")
AddRunInteractive ==
    /\ mainPc = "add_run" /\ ~args.runGrid
    /\ DoAddRun(args.runNumber, OutputFCL(version))
    /\ mainPc' = After("add_run")
    /\ UNCHANGED <<opened, resultsCalled, mainParams, version, macroResults, fclDir, ending>>
    /\ MainFrame

\* interactive: run(outputFCL, inputFile, outputFile, options), '-n 2' with --debug
RunLarInteractive ==
    /\ mainPc = "lar" /\ ~args.runGrid
    /\ DoRun(IF args.debug THEN "-n 2" ELSE NULL)
    /\ mainPc' = After("lar")
    /\ UNCHANGED <<dbs, opened, clock, resultsCalled, mainParams, runId, version, macroResults, fclDir, ending>>
    /\ MainFrame

\* interactive: db.update_output_filename(run_id, outputFile); get_all_runs
UpdateOutputInteractive ==
    /\ mainPc = "update_output" /\ ~args.runGrid
    /\ DoUpdateOutput(OutputFile(version))
    /\ mainPc' = After("update_output")
    /\ UNCHANGED <<opened, clock, resultsCalled, mainParams, runId, version, macroResults, fclDir, ending>>
    /\ MainFrame

\* interactive: with --mc results = r.galleryMC(...), else r.galleryMacro(...)
\* and the try block is over; an exception is caught and the loop goes on
GalleryInteractive ==
    /\ mainPc = "macro" /\ ~args.runGrid
    /\ \/ /\ args.mc
          /\ \E res \in MacroReturns :
                /\ macroResults' = res
                /\ events' = Append(events, [Event("galleryMC", HistFile(version)) EXCEPT !.res = res])
          /\ mainPc' = After("macro")
       \/ /\ ~args.mc
          /\ events' = Append(events, Event("galleryMacro", HistFile(version)))
          /\ mainPc' = After("update_results")
          /\ UNCHANGED macroResults
       \/ /\ events' = Append(events, Event("raised", "macro"))
          /\ mainPc' = "close"
          /\ UNCHANGED macroResults
    /\ UNCHANGED <<dbs, opened, clock, resultsCalled, mainParams, runId, version, fclDir, ending>>
    /\ MainFrame

\* interactive, --mc: db.update_results(run_id, results); IndexError is caught
UpdateResultsInteractive ==
    /\ mainPc = "update_results" /\ ~args.runGrid
    /\ IF UpdateResultsRaises(macroResults)
       THEN /\ events' = Append(events, Event("raised", "update_results"))
            /\ mainPc' = "close"
            /\ UNCHANGED <<dbs, resultsCalled>>
       ELSE /\ DoUpdateResults
            /\ mainPc' = After("update_results")
    /\ UNCHANGED <<opened, clock, mainParams, runId, version, macroResults, fclDir, ending>>
    /\ MainFrame

\* interactive: db.close() after the loop, and the script is over
CloseInteractive ==
    /\ mainPc = "close" /\ ~args.runGrid
    /\ Ends("exit 0")
    /\ UNCHANGED <<dbs, clock, resultsCalled, mainParams, runId, version, macroResults, fclDir, events>>
    /\ MainFrame

\* the script has not been invoked
MainStart ==
    /\ mainPc = "idle"
    /\ args = NoArgs
    /\ mainParams = DefaultParams
    /\ runId = 0
    /\ version = 0
    /\ macroResults = <<>>
    /\ events = <<>>
    /\ invocations = 0
    /\ ending = "none"

\* ... and the output directory holds no FCL file
MainInit == MainStart /\ fclDir = {}

\* the output directories the first invocation can find: an empty one, and
\* one that holds hitTuning_tag_0.fcl and hitTuning_tag_2.fcl
DirsAtStart == {{}, {0, 2}}

\* no database file holds the runs table, no HitTuningDB object exists
DbInit ==
    /\ dbs = [f \in DbFiles |-> NoTable]
    /\ opened = {}
    /\ clock = 0
    /\ call = NoCall
    /\ resultsCalled = [f \in DbFiles |-> {}]
    /\ nops = 0

Init == FclInit /\ DbInit /\ MainInit /\ GridInit /\ EnsureInit

Next ==
    \/ \E f \in JobFiles : Open(f)
    \/ \E f \in JobFiles : Close(f)
    \/ \E f \in JobFiles : AddRun(f)
    \/ \E f \in JobFiles : UpdateOutputFilename(f)
    \/ \E f \in JobFiles : UpdateHistFilename(f)
    \/ \E f \in JobFiles : UpdateResults(f)
    \/ Merge

Spec == Init /\ [][Next]_vars

(***************************************************************************)
(* The query specification: HitTuningDB on a database that holds rows      *)
(***************************************************************************)
\* the file the queries are made on: a merged database
QueryDb == "merged.db"

\* the rows a runs table holds after add_run, update_output_filename and
\* update_results, written at tick t
RowsWritten(t) ==
    {NewRow(DefaultParams, 1, t, "run.fcl", NULL, NULL, NULL),
     [NewRow(DefaultParams, 1, t, "run.fcl", NULL, NULL, NULL) EXCEPT
         !.output_filename = "out.root"],
     [NewRow(MixedParams, 2, t, "mixed.fcl", "out.root", NULL, "n") EXCEPT
         !.ratio = ResultsBinding(ResultsA)]}

\* the tables merge_sqlite_dbs makes of such rows: the merges append the rows
\* of the job databases in the order of db_files, whatever their timestamps,
\* and a file merged twice gives rows of equal timestamp
MergedTables ==
    {InsertSelect(create_tables(NoTable), rows) :
        rows \in UNION {[1..n -> UNION {RowsWritten(t) : t \in 1..MaxRows}] : n \in 0..MaxRows}}

\* db = HitTuningDB(QueryDb) has been opened on a merged database
InitQuery ==
    /\ FclInit /\ MainInit /\ GridInit /\ EnsureInit
    /\ \E table \in MergedTables : dbs = [f \in DbFiles |-> IF f = QueryDb THEN table ELSE NoTable]
    /\ opened = {QueryDb}
    /\ clock = MaxRows
    /\ call = NoCall
    /\ resultsCalled = [f \in DbFiles |-> {}]
    /\ nops = 0

NextQuery ==
    \/ Open(QueryDb)
    \/ Close(QueryDb)
    \/ AddRun(QueryDb)
    \/ GetRun(QueryDb)
    \/ GetAllRuns(QueryDb)
    \/ SearchRuns(QueryDb)

SpecQuery == InitQuery /\ [][NextQuery]_vars

(***************************************************************************)
(* The main script specification: invocations of hitTuning.py             *)
(***************************************************************************)
InitMain ==
    /\ FclInit /\ DbInit /\ GridInit /\ EnsureInit
    /\ MainStart /\ fclDir \in DirsAtStart

NextMain ==
    \/ ParseArgs \/ CreateGridBranch \/ OpenTagDb \/ Validate \/ LoadMacroGrid
    \/ OpenJobDb \/ ParseJobFcl \/ AddRunGrid \/ RunLarGrid \/ UpdateOutputGrid
    \/ GalleryMCGrid \/ UpdateResultsGrid \/ CloseGrid
    \/ LoadMacroInteractive \/ GenerateInteractive \/ AddRunInteractive
    \/ RunLarInteractive \/ UpdateOutputInteractive \/ GalleryInteractive
    \/ UpdateResultsInteractive \/ CloseInteractive

SpecMain == InitMain /\ [][NextMain]_vars

(***************************************************************************)
(* The grid specification: calls of createGrid                            *)
(***************************************************************************)
InitGrid == FclInit /\ DbInit /\ MainInit /\ GridInit /\ EnsureInit

NextGrid == CreateGridCall \/ ReduceListCall

SpecGrid == InitGrid /\ [][NextGrid]_vars

(***************************************************************************)
(* The FCL specification: constructor, generators and parser              *)
(***************************************************************************)
InitFcl == FclInit /\ DbInit /\ MainInit /\ GridInit /\ EnsureInit

NextFcl == Construct \/ GenerateFCL \/ GenerateFCLMC \/ WriteText \/ Parse

SpecFcl == InitFcl /\ [][NextFcl]_vars

(***************************************************************************)
(* The coercion specification: calls of _ensure_list3                      *)
(***************************************************************************)
InitEnsure == FclInit /\ DbInit /\ MainInit /\ GridInit /\ EnsureInit

NextEnsure == EnsureList3Call

SpecEnsure == InitEnsure /\ [][NextEnsure]_vars

(***************************************************************************)
(* Claims about fclParams, the generators and the parser                   *)
(***************************************************************************)
AllLen3(p) == \A f \in ArrayFields : IsList(p[f]) /\ Len(p[f].items) = 3

\* C1: every fclParams object, built by the constructor or returned by
\* parse_fcl_to_params, has each of its eight per-plane arrays of length 3.
C1_ArraysHaveLength3 ==
    /\ ParamsBuilt => AllLen3(params)
    /\ fclPc = "parsed" => AllLen3(parsed)

ThreeNumbers(p) ==
    \A f \in ArrayFields :
        /\ IsList(p[f]) /\ Len(p[f].items) = 3
        /\ \A i \in 1..3 : IsNumber(p[f].items[i])

\* equality of two fclParams objects in all ten parameters
ParamsEq(p, q) == \A f \in ArrayFields \cup ScalarFields : PyEq(p[f], q[f])

Generated == origin \in {"generateFCL", "generateFCLMC"}

\* C2: for every fclParams p whose eight arrays hold three numbers each,
\* parsing the file written by generateFCL(p) or generateFCLMC(p) returns an
\* fclParams equal to p in all ten parameters.
C2_RoundTrip ==
    (Generated /\ fclPc \in {"parsed", "raised"} /\ ThreeNumbers(params))
        => (fclPc = "parsed" /\ ParamsEq(parsed, params))

\* the value the parser reads from one matching line
ValueAt(line) == _parse_value(Strip(Captured(line.rhs)))

Occurs(key, text) == \E i \in 1..Len(text) : LineMatches(key, text[i])

\* the occurrence of key that comes last in the text
LastLine(key, text) ==
    text[CHOOSE i \in 1..Len(text) :
            /\ LineMatches(key, text[i])
            /\ \A j \in (i + 1)..Len(text) : ~LineMatches(key, text[j])]

\* the array is what _ensure_list3 makes of the last occurrence of key, which
\* is a value _ensure_list3 accepts
FromLast(array, key) ==
    /\ ~EnsureList3Raises(ValueAt(LastLine(key, fclText)))
    /\ array = _ensure_list3(ValueAt(LastLine(key, fclText)))

\* C3: when a key occurs in the FCL text (once or several times), the
\* parameter it sets comes from the occurrence that is last in the file, for
\* each of the twelve keys: the three roiThreshold entries as read, the seven
\* other arrays through _ensure_list3, MaxMultiHit and Chi2NDF as read.
C3_LastMatchWins ==
    fclPc = "parsed" =>
        /\ Occurs(KeyRoi0, fclText) =>
               parsed.roiThreshold.items[1] = ValueAt(LastLine(KeyRoi0, fclText))
        /\ Occurs(KeyRoi1, fclText) =>
               parsed.roiThreshold.items[2] = ValueAt(LastLine(KeyRoi1, fclText))
        /\ Occurs(KeyRoi2, fclText) =>
               parsed.roiThreshold.items[3] = ValueAt(LastLine(KeyRoi2, fclText))
        /\ Occurs(KeyMph, fclText) => FromLast(parsed.minPulseHeight, KeyMph)
        /\ Occurs(KeyMps, fclText) => FromLast(parsed.minPulseSigma, KeyMps)
        /\ \A f \in {"LongMaxHits", "LongPulseWidth", "PulseHeightCuts",
                     "PulseWidthCuts", "PulseRatioCuts"} :
               Occurs(KeyOf(f), fclText) => FromLast(parsed[f], KeyOf(f))
        /\ \A f \in ScalarFields :
               Occurs(KeyOf(f), fclText) => parsed[f] = ValueAt(LastLine(KeyOf(f), fclText))

\* a parsed text in which one key occurs twice with different values
C3_Witness ==
    /\ fclPc = "parsed"
    /\ \E key \in Keys : \E i, j \in 1..Len(fclText) :
          /\ i < j
          /\ LineMatches(key, fclText[i]) /\ LineMatches(key, fclText[j])
          /\ ValueAt(fclText[i]) # ValueAt(fclText[j])

\* C13: _ensure_list3 returns a list of length exactly 3 for every input: any
\* scalar and any list of any length, including the empty list.
C13_EnsureList3Total ==
    ensurePc # "start" =>
        /\ ensurePc = "returned"
        /\ IsList(ensured) /\ Len(ensured.items) = 3

\* C21: for non-empty input _ensure_list3 computes: a scalar v gives
\* [v, v, v]; a list of length 1 gives its element three times; a list
\* [a, b] gives [a, b, b]; a list of length 3 is returned unchanged; a longer
\* list gives its first three elements.
C21_EnsureList3Cases ==
    (ensurePc # "start" /\ ~(IsList(ensureArg) /\ ensureArg.items = <<>>)) =>
        /\ ensurePc = "returned"
        /\ ~IsList(ensureArg) => ensured = PyList(<<ensureArg, ensureArg, ensureArg>>)
        /\ IsList(ensureArg) =>
              LET l == ensureArg.items
              IN  /\ Len(l) = 1 => ensured = PyList(<<l[1], l[1], l[1]>>)
                  /\ Len(l) = 2 => ensured = PyList(<<l[1], l[2], l[2]>>)
                  /\ Len(l) = 3 => ensured = ensureArg
                  /\ Len(l) > 3 => ensured = PyList(<<l[1], l[2], l[3]>>)

\* a list of two different entries has been coerced: the padding entry is
\* its last one
C21_Witness ==
    /\ ensurePc = "returned"
    /\ IsList(ensureArg) /\ Len(ensureArg.items) = 2
    /\ ensureArg.items[1] # ensureArg.items[2]
    /\ Len(ensured.items) = 3 /\ ensured.items[3] = ensureArg.items[2]

(***************************************************************************)
(* Claims about the run database and the merge                             *)
(***************************************************************************)
RowsOf(f) == dbs[f].rows

AllSentinel(row) == \A c \in RatioNames : row.ratio[c] = Sentinel

\* the row add_run has just inserted and returned the id of
AddedRowIsSentinel ==
    (call.op = "add_run" /\ call.outcome = "returned") =>
        \A i \in 1..Len(RowsOf(call.file)) :
            RowsOf(call.file)[i].id = call.run_id => AllSentinel(RowsOf(call.file)[i])

\* C4 as stated: a row created by add_run has all 24 ratio columns equal to
\* -1, and in every database state a row's ratio columns are all -1 unless
\* update_results has been called for that row's id.
C4_SentinelUntilResults ==
    /\ AddedRowIsSentinel
    /\ \A f \in DbFiles : \A i \in 1..Len(RowsOf(f)) :
          ~AllSentinel(RowsOf(f)[i]) => RowsOf(f)[i].id \in resultsCalled[f]

\* C4 amended: a row created by add_run has all 24 ratio columns equal to
\* -1, and a row's ratio columns are all -1 unless update_results has been
\* called for that row's id on its database or merge_sqlite_dbs copied the
\* row (with the ratios of its source row) into the database.
C4_SentinelUntilResultsOrMerge ==
    /\ AddedRowIsSentinel
    /\ \A f \in DbFiles : \A i \in 1..Len(RowsOf(f)) :
          ~AllSentinel(RowsOf(f)[i]) =>
              \/ RowsOf(f)[i].id \in resultsCalled[f]
              \/ RowsOf(f)[i].via = "merge"

\* update_results has filled a row add_run made in a job database, and a
\* merge has copied the filled row into a database update_results was never
\* called on
C4_Witness ==
    /\ call.op = "merge" /\ call.outcome = "returned"
    /\ resultsCalled[call.file] = {}
    /\ \E i \in 1..Len(RowsOf(call.file)) :
          /\ RowsOf(call.file)[i].via = "merge"
          /\ RowsOf(call.file)[i].ratio = ResultsBinding(ResultsA)
    /\ \E f \in JobFiles : \E j \in 1..Len(RowsOf(f)) :
          /\ RowsOf(f)[j].via = "add_run"
          /\ RowsOf(f)[j].ratio = ResultsBinding(ResultsA) /\ RowsOf(f)[j].id \in resultsCalled[f]

\* C7: rows are never deleted: over every step of every operation (open and
\* re-open, create_tables, add_run, the updates, close, merge_sqlite_dbs) the
\* number of rows of every runs table does not decrease and every row id that
\* existed still exists.
C7_RowsNeverDeleted ==
    [][\A f \in DbFiles :
          /\ Len(dbs'[f].rows) >= Len(dbs[f].rows)
          /\ RowIds(dbs[f]) \subseteq RowIds(dbs'[f])]_vars

\* a database file that holds rows has been opened again, and another holds
\* rows after a merge into it
C7_Witness ==
    \/ /\ call.op = "open" /\ Len(RowsOf(call.file)) > 0
       /\ \E d \in MergeDests : Len(RowsOf(d)) > 0
    \/ /\ call.op = "merge" /\ call.outcome = "returned" /\ Len(RowsOf(call.file)) > 0
       /\ \E f \in JobFiles : Len(RowsOf(f)) > 0 /\ f \notin opened

\* the non-id columns of two rows agree (via is history, not a column)
SameColumns(r, q) == [r EXCEPT !.id = 0, !.via = ""] = [q EXCEPT !.id = 0, !.via = ""]

RECURSIVE SourceRows(_, _)
\* the rows of the source files, in list order
SourceRows(files, all) ==
    IF files = <<>> THEN <<>> ELSE all[Head(files)].rows \o SourceRows(Tail(files), all)

\* the destination after the step is the destination before it plus one row
\* per source row, in order, with the columns kept and fresh ids
StraightAppend(old, new, src) ==
    /\ Len(new) = Len(old) + Len(src)
    /\ SubSeq(new, 1, Len(old)) = old
    /\ \A k \in 1..Len(src) :
          /\ SameColumns(new[Len(old) + k], src[k])
          /\ \A i \in 1..(Len(old) + k - 1) : new[i].id # new[Len(old) + k].id

\* this step is a call of merge_sqlite_dbs
MergeStep == call'.op = "merge" /\ nops' = nops + 1

\* the call can get the schema (the destination or the first source has the
\* table) and does not merge the destination into itself
MergeApplies ==
    /\ dbs[call'.file].hasTable \/ (call'.srcs # <<>> /\ dbs[call'.srcs[1]].hasTable)
    /\ \A k \in 1..Len(call'.srcs) : call'.srcs[k] # call'.file

\* C8: merge_sqlite_dbs is a straight append: after the call the destination
\* holds its previous rows unchanged plus, for each source file in list
\* order, one new row per source row with the non-id columns preserved and a
\* fresh id, so its row count is the prior count plus the sum of the source
\* row counts.
C8_StraightAppend ==
    [][(MergeStep /\ MergeApplies) =>
          StraightAppend(dbs[call'.file].rows, dbs'[call'.file].rows,
                         SourceRows(call'.srcs, dbs))]_vars

\* what the code does keep: the append, for the calls that return
C8_StraightAppendOnReturn ==
    [][(MergeStep /\ call'.outcome = "returned") =>
          StraightAppend(dbs[call'.file].rows, dbs'[call'.file].rows,
                         SourceRows(call'.srcs, dbs))]_vars

\* C17: a source database file that does not contain the table being merged
\* is skipped by merge_sqlite_dbs: no rows are copied from it, no error is
\* raised, and merging continues with the remaining files of db_files until
\* the function returns normally (the rows of the files that hold the table
\* are appended).
C17_TablelessSourceSkipped ==
    [][(/\ MergeStep /\ MergeApplies
        /\ \E k \in 1..Len(call'.srcs) : ~dbs[call'.srcs[k]].hasTable) =>
          /\ call'.outcome = "returned"
          /\ StraightAppend(dbs[call'.file].rows, dbs'[call'.file].rows,
                            SourceRows(call'.srcs, dbs))]_vars

\* C9: conflict decides what happens to a source row whose id duplicates a
\* destination row's: with 'ignore' the destination row is kept and the source
\* row is not inserted, with 'replace' the source row replaces the destination
\* row; either way only the source rows with a new id add to the row count.
C9_ConflictDecides ==
    [][(MergeStep /\ call'.outcome = "returned" /\ Len(call'.srcs) = 1) =>
          LET old == dbs[call'.file]
              new == dbs'[call'.file]
              src == dbs[call'.srcs[1]].rows
              dup == {i \in 1..Len(src) : src[i].id \in RowIds(old)}
          IN  /\ Len(new.rows) = Len(old.rows) + (Len(src) - Cardinality(dup))
              /\ \A i \in dup : \A j \in 1..Len(old.rows) :
                    old.rows[j].id = src[i].id =>
                        IF call'.conflict = "ignore"
                        THEN new.rows[j] = old.rows[j]
                        ELSE SameColumns(new.rows[j], src[i])]_vars

(***************************************************************************)
(* Claims about the main script                                            *)
(***************************************************************************)
\* the rows the script has created, as <<file, id>>
CreatedRows == {<<events[i].file, events[i].id>> : i \in {k \in 1..Len(events) : events[k].ev = "add_run"}}

\* the rows anything has been done for
TouchedRows == {<<events[i].file, events[i].id>> : i \in {k \in 1..Len(events) : events[k].id # 0}}

RowEventNames == {"add_run", "lar", "update_output_filename", "update_results"}

\* where in the history the event ev of row r is
Positions(r, ev) ==
    {i \in 1..Len(events) : events[i].file = r[1] /\ events[i].id = r[2] /\ events[i].ev = ev}

\* the row of the table behind <<file, id>>
RowAt(r) == dbs[r[1]].rows[CHOOSE i \in 1..Len(dbs[r[1]].rows) : dbs[r[1]].rows[i].id = r[2]]

\* C5: for every run row the main script creates (runGrid and interactive
\* mode), the events on that row occur in the order add_run, lar,
\* update_output_filename, update_results and each at most once; nothing is
\* done to a row before its add_run and update_results never precedes
\* update_output_filename.  The table agrees with the history: a row has an
\* output file name or ratios only after the matching event.
C5_RowEventOrder ==
    \A r \in TouchedRows :
        /\ \A ev \in RowEventNames : Cardinality(Positions(r, ev)) <= 1
        /\ Cardinality(Positions(r, "add_run")) = 1
        /\ \A i \in 1..Len(events) :
              (events[i].file = r[1] /\ events[i].id = r[2]) =>
                  \A a \in Positions(r, "add_run") : a <= i
        /\ \A a \in Positions(r, "add_run") : \A l \in Positions(r, "lar") : a < l
        /\ \A l \in Positions(r, "lar") : \A o \in Positions(r, "update_output_filename") : l < o
        /\ \A u \in Positions(r, "update_results") :
              \E o \in Positions(r, "update_output_filename") : o < u
        /\ \A u \in Positions(r, "update_results") : \A l \in Positions(r, "lar") : l < u
        /\ r[2] \in RowIds(dbs[r[1]])
        /\ RowAt(r).output_filename # NULL => Positions(r, "update_output_filename") # {}
        /\ ~AllSentinel(RowAt(r)) => Positions(r, "update_results") # {}

\* the script has ended twice; one row went through all four events, another
\* through add_run, lar and update_output_filename only
C5_Witness ==
    /\ mainPc = "ended" /\ invocations = 2
    /\ \E r \in CreatedRows : \A ev \in RowEventNames : Positions(r, ev) # {}
    /\ \E r \in CreatedRows :
          /\ Positions(r, "update_output_filename") # {}
          /\ Positions(r, "update_results") = {}

\* the ratio columns of row hold the matrix res, entry by entry
HoldsResults(row, res) ==
    /\ ~UpdateResultsRaises(res)
    /\ \A k \in 1..Len(RatioColumns) :
          row.ratio[RatioColumns[k]] = res[((k - 1) \div 4) + 1][((k - 1) % 4) + 1]

\* the analysis macro returned res for row r
Returned(r, res) == \E i \in Positions(r, "galleryMC") : events[i].res = res

\* an exception was raised while row r was processed
RaisedFor(r) == Positions(r, "raised") # {}

\* the mode row r was created in
CreatedBy(r) == events[CHOOSE i \in Positions(r, "add_run") : TRUE]

\* C6 as stated: every run row created by the main script has, by the time
\* the script ends, been updated with its output file path and then with its
\* ratio metrics (output_filename is non-null and the ratio columns hold the
\* values the analysis macro returned), in every mode in which rows are created.
C6_EveryRowFilled ==
    mainPc = "ended" =>
        \A r \in CreatedRows :
            /\ RowAt(r).output_filename # NULL
            /\ \E res \in MacroReturns : Returned(r, res) /\ HoldsResults(RowAt(r), res)

\* C6 amended: by the time the script ends, every run row it created and
\* processed without an exception has its output file path; in runGrid mode
\* and in interactive mode with --mc its ratio columns then hold the values
\* galleryMC returned, in interactive mode without --mc update_results is not
\* called and its ratio columns are all -1.  A row whose analysis step raised
\* (the macro failed, or update_results met a result smaller than 6x4) has
\* its output file path and ratio columns of -1.
C6_FilledWhereAnalysed ==
    mainPc = "ended" =>
        \A r \in CreatedRows :
            /\ ~RaisedFor(r) =>
                  /\ RowAt(r).output_filename # NULL
                  /\ (CreatedBy(r).runGrid \/ CreatedBy(r).mc) =>
                         \E res \in MacroReturns : Returned(r, res) /\ HoldsResults(RowAt(r), res)
                  /\ (~CreatedBy(r).runGrid /\ ~CreatedBy(r).mc) => AllSentinel(RowAt(r))
            /\ RaisedFor(r) => (RowAt(r).output_filename # NULL /\ AllSentinel(RowAt(r)))

\* the script has ended twice without an exception: once it filled a row
\* with the macro's values, once (interactive, no --mc) it left the ratios at -1
C6_Witness ==
    /\ mainPc = "ended" /\ ending = "exit 0"
    /\ \E r, q \in CreatedRows :
          /\ ~RaisedFor(r) /\ ~RaisedFor(q)
          /\ HoldsResults(RowAt(r), ResultsA) /\ RowAt(r).output_filename # NULL
          /\ ~CreatedBy(q).runGrid /\ ~CreatedBy(q).mc
          /\ AllSentinel(RowAt(q)) /\ RowAt(q).output_filename # NULL

(***************************************************************************)
(* Claims about createGrid                                                 *)
(***************************************************************************)
\* the number of combinations of one candidate per parameter
Combinations == 6 * 1 * 1 * 4 * 3 * 2 * 1 * 1 * 4 * 5

\* the product of the lengths of the candidate lists right of list k
RECURSIVE Weight(_)
Weight(k) == IF k = Len(Candidates) THEN 1 ELSE Len(Candidates[k + 1]) * Weight(k + 1)

\* the n-th combination in product order, n from 0: the index of list k is
\* the k-th digit of n in the mixed radix of the list lengths
NthIndex(n) == [k \in 1..Len(Candidates) |-> ((n \div Weight(k)) % Len(Candidates[k])) + 1]

\* every choice of one candidate per parameter
AllIndexes ==
    {<<a, b, c, d, e, f, g, h, m, x>> :
        a \in 1..Len(v_roiThreshold), b \in 1..Len(v_minPulseHeight),
        c \in 1..Len(v_minPulseSigma), d \in 1..Len(v_LongMaxHits),
        e \in 1..Len(v_LongPulseWidth), f \in 1..Len(v_PulseHeightCuts),
        g \in 1..Len(v_PulseWidthCuts), h \in 1..Len(v_PulseRatioCuts),
        m \in 1..Len(v_MaxMultiHit), x \in 1..Len(v_Chi2NDF)}

\* the returned list without the default entry
GridPart == IF defaultFirst THEN Tail(paramGrid) ELSE paramGrid

\* C10: createGrid returns the flat Cartesian product of the candidate lists
\* of the ten parameters: each combination of one candidate per parameter
\* appears exactly once (2880 combinations), in product order, each as an
\* fclParams whose per-plane arrays have length 3; with defaultFirst=True the
\* default fclParams() is additionally at index 0 and the list has 2881 entries.
C10_GridIsProduct ==
    gridPc = "returned" =>
        /\ Len(GridPart) = Combinations
        /\ Len(paramGrid) = IF defaultFirst THEN Combinations + 1 ELSE Combinations
        /\ defaultFirst => paramGrid[1] = fclParams(DefaultArgs)
        /\ \A n \in 0..(Combinations - 1) : GridPart[n + 1] = ComboParams(NthIndex(n))
        /\ {GridPart[n] : n \in 1..Len(GridPart)} = {ComboParams(i) : i \in AllIndexes}
        /\ Cardinality({GridPart[n] : n \in 1..Len(GridPart)}) = Len(GridPart)
        /\ \A n \in 1..Len(paramGrid) : AllLen3(paramGrid[n])

\* createGrid(defaultFirst=True) has returned: the default first, then the
\* grid, whose first two entries differ in Chi2NDF only
C10_Witness ==
    /\ gridPc = "returned" /\ defaultFirst
    /\ Len(paramGrid) = Combinations + 1
    /\ paramGrid[2].Chi2NDF = PyFloat(50000) /\ paramGrid[3].Chi2NDF = PyFloat(100000)
    /\ paramGrid[2].roiThreshold = paramGrid[3].roiThreshold

(***************************************************************************)
(* Further claims about the main script                                    *)
(***************************************************************************)
\* the number of FCL files the --createGrid branch is to write: one per
\* entry of createGrid(), the first two with --debug
GridFilesWanted == IF args.debug THEN 2 ELSE Combinations + 1

\* C11: run with --createGrid, the main script writes one FCL file per grid
\* entry (the first two with --debug), hitTuning_<tag>_<index>.fcl for the
\* indexes from 0 on, and then exits with status 0 without opening a database
\* or invoking lar.
C11_CreateGridWritesFiles ==
    (mainPc = "ended" /\ args.createGrid) =>
        /\ ending = "exit 0"
        /\ \A ip \in 0..(GridFilesWanted - 1) : ip \in fclDir
        /\ opened = {}
        /\ \A i \in 1..Len(events) : events[i].ev # "lar"

\* the add_run calls of invocation n, as positions in the history
AddRunsOf(n) == {k \in 1..Len(events) : events[k].ev = "add_run" /\ events[k].inv = n}

\* invocation n ended in an exception before it reached add_run
RaisedEarly(n) ==
    \E k \in 1..Len(events) : events[k].ev = "raised" /\ events[k].inv = n /\ events[k].id = 0

\* the command line passes the checks of the --runGrid arguments
PassesValidation ==
    args.runGrid /\ args.outputDir = "out.root" /\ args.fclFile # "" /\ args.path # NULL

\* the rows of every runs table are the rows the add_run calls of the script
\* made there, one row per call
TableAgrees ==
    \A f \in DbFiles :
        /\ Len(RowsOf(f)) = Cardinality({k \in 1..Len(events) : events[k].ev = "add_run" /\ events[k].file = f})
        /\ RowIds(dbs[f]) = {events[k].id : k \in {j \in 1..Len(events) : events[j].ev = "add_run" /\ events[j].file = f}}

\* the invocation that has just ended added exactly one row, to file f
AddedOneRowTo(f) ==
    /\ Cardinality(AddRunsOf(invocations)) = 1
    /\ \A k \in AddRunsOf(invocations) : events[k].file = f

GetAfterAdd ==
    /\ call.op = "add_run" /\ call.outcome = "returned"
    /\ call'.op = "get_run" /\ call'.file = call.file /\ call'.run_id = call.run_id

\* the row holds the values add_run was given: params.X[i] in column X_i,
\* equal as Python compares numbers
HoldsGiven(row, a) ==
    /\ row.jobNum = a.jobNum
    /\ row.fcl_filename = a.fcl_filename
    /\ row.output_filename = a.output_filename
    /\ row.hist_filename = a.hist_filename
    /\ row.notes = a.notes
    /\ \A f \in ArrayFields : \A i \in 1..3 : PyEq(row.par[f][i], a.params[f].items[i])
    /\ \A f \in ScalarFields : PyEq(row.par[f], a.params[f])

\* C14: after add_run(params, jobNum, fcl_filename, ...) returns r, get_run(r)
\* returns the row with id r whose jobNum, fcl_filename, output_filename,
\* hist_filename, notes, 24 per-plane parameter columns, MaxMultiHit and
\* Chi2NDF equal the values passed (params.X[i] in column X_i, for parameters
\* that are numbers); get_run of an id for which no row exists returns None.
C14_GetRunReturnsAdded ==
    [][/\ GetAfterAdd =>
             /\ Len(call'.result) = 1
             /\ call'.result[1].id = call.run_id
             /\ HoldsGiven(call'.result[1], call.given)
       /\ (call'.op = "get_run" /\ nops' = nops + 1) =>
             IF call'.run_id \in RowIds(dbs[call'.file])
             THEN Len(call'.result) = 1 /\ call'.result[1].id = call'.run_id
             ELSE call'.result = <<>>]_vars

\* get_run has returned the row add_run made of the mixed parameters: the
\* ints of the REAL columns as floats, the whole floats and the bool of the
\* INTEGER columns as ints, the optional arguments as given
C14_Witness ==
    /\ call.op = "get_run" /\ Len(call.result) = 1
    /\ call.result[1].id = call.run_id
    /\ call.result[1].output_filename = "early.root"
    /\ call.result[1].hist_filename = "early_hist.root"
    /\ call.result[1].par.roiThreshold = <<PyFloat(600), PyFloat(250), PyInf(1)>>
    /\ call.result[1].par.LongMaxHits = <<PyInt(5), PyInt(7), PyInt(1)>>
    /\ call.result[1].par.MaxMultiHit = PyFloat(250)

\* the result holds every row of the table exactly once
EveryRowOnce(result, rows) ==
    /\ Len(result) = Len(rows)
    /\ \A i \in 1..Len(rows) :
          Cardinality({j \in 1..Len(result) : result[j] = Columns(rows[i])}) = 1

\* C15: get_all_runs returns every row of the runs table exactly once,
\* ordered by timestamp with the most recent row first.
C15_AllRunsNewestFirst ==
    call.op = "get_all_runs" =>
        /\ EveryRowOnce(call.result, RowsOf(call.file))
        /\ \A i, j \in 1..Len(call.result) :
              i < j => call.result[i].timestamp >= call.result[j].timestamp

\* get_all_runs has returned the rows of a full table in which the row
\* inserted first is the more recent one: the result is not in id order
C15_Witness ==
    /\ call.op = "get_all_runs" /\ Len(call.result) = MaxRows
    /\ call.result[1].timestamp > call.result[2].timestamp
    /\ call.result[1].id < call.result[2].id

\* the row has, in every column given as a keyword, the value given
\* (None for a column that is NULL)
EqualsGiven(row, kwargs) == \A k \in kwargs.keys : row[k] = kwargs.val[k]

\* C16: search_runs(**kwargs) returns exactly the rows for which every given
\* column equals the given value (the conjunction of all filters), with no
\* keyword arguments all rows, and it never modifies the database.
C16_SearchIsConjunction ==
    [][call'.op = "search_runs" =>
          LET rows   == dbs[call'.file].rows
              result == call'.result
              match  == {i \in 1..Len(rows) : EqualsGiven(rows[i], call'.given)}
          IN  /\ {result[j] : j \in 1..Len(result)} = {Columns(rows[i]) : i \in match}
              /\ Len(result) = Cardinality(match)
              /\ dbs' = dbs]_vars

\* what the code does keep: the rows returned are those whose given columns
\* are not NULL and equal the given values, and the database is unchanged
C16_SearchIsSqlConjunction ==
    [][call'.op = "search_runs" =>
          LET rows   == dbs[call'.file].rows
              result == call'.result
              match  == {i \in 1..Len(rows) :
                            /\ EqualsGiven(rows[i], call'.given)
                            /\ "output_filename" \in call'.given.keys =>
                                   call'.given.val.output_filename # NULL}
          IN  /\ {result[j] : j \in 1..Len(result)} = {Columns(rows[i]) : i \in match}
              /\ Len(result) = Cardinality(match)
              /\ dbs' = dbs]_vars

(***************************************************************************)
(* Claims about the updates and the ids                                    *)
(***************************************************************************)
\* the six species and the four slots, in the order of the claim
Species == <<"total", "ele", "gamma", "mu", "p", "pi">>

Slots == <<"", "0", "1", "2">>

\* the name of the ratio column of species sp and slot k
RatioColumn(sp, k) == "ratio_" \o Species[sp] \o Slots[k]

\* this step is a call of the update op
UpdateStep(op) == call'.op = op /\ nops' = nops + 1

\* no table but that of the call's file changes
OthersUnchanged == \A f \in DbFiles \ {call'.file} : dbs'[f] = dbs[f]

\* C18: update_results(run_id, results) with a 6x4 matrix stores
\* results[s][k] into the ratio column of species s (total, ele, gamma, mu,
\* p, pi) and slot k (overall, plane 0, plane 1, plane 2) of the row with id
\* run_id, and leaves every other column of that row and every other row
\* unchanged.
C18_UpdateResultsFrame ==
    [][UpdateStep("update_results") =>
          LET old == dbs[call'.file].rows
              new == dbs'[call'.file].rows
          IN  /\ Len(new) = Len(old)
              /\ \A i \in 1..Len(old) :
                    IF old[i].id = call'.run_id
                    THEN /\ \A sp \in 1..6 : \A k \in 1..4 :
                               new[i].ratio[RatioColumn(sp, k)] = call'.given[sp][k]
                         /\ DOMAIN new[i].ratio = RatioNames
                         /\ [new[i] EXCEPT !.ratio = old[i].ratio] = old[i]
                    ELSE new[i] = old[i]
              /\ OthersUnchanged]_vars

\* update_results has filled the second row of a table and left the first
\* row with its ratios of -1
C18_Witness ==
    /\ call.op = "update_results" /\ Len(RowsOf(call.file)) = 2
    /\ RowsOf(call.file)[2].id = call.run_id
    /\ RowsOf(call.file)[2].ratio["ratio_gamma1"] = ResultsA[3][3]
    /\ RowsOf(call.file)[2].ratio["ratio_pi"] = ResultsA[6][1]
    /\ AllSentinel(RowsOf(call.file)[1])

\* C19: update_output_filename(run_id, f) and update_hist_filename(run_id, f)
\* change only the named filename column of the row with id run_id; all
\* other columns of that row and all other rows are unchanged, and when no
\* row has id run_id the database is unchanged and no error is raised.
C19_FilenameUpdateFrame ==
    [][(UpdateStep("update_output_filename") \/ UpdateStep("update_hist_filename")) =>
          LET old    == dbs[call'.file].rows
              new    == dbs'[call'.file].rows
              column == IF call'.op = "update_output_filename"
                        THEN "output_filename" ELSE "hist_filename"
          IN  /\ call'.outcome = "returned"
              /\ Len(new) = Len(old)
              /\ \A i \in 1..Len(old) :
                    IF old[i].id = call'.run_id
                    THEN /\ new[i][column] = call'.given
                         /\ [new[i] EXCEPT ![column] = old[i][column]] = old[i]
                    ELSE new[i] = old[i]
              /\ call'.run_id \notin RowIds(dbs[call'.file]) => dbs' = dbs
              /\ OthersUnchanged]_vars

\* update_hist_filename has set the histogram file of the first of two rows;
\* its output file and the other row's histogram file are still NULL
C19_Witness ==
    /\ call.op = "update_hist_filename" /\ Len(RowsOf(call.file)) = 2
    /\ RowsOf(call.file)[1].id = call.run_id
    /\ RowsOf(call.file)[1].hist_filename = call.given
    /\ RowsOf(call.file)[1].output_filename = NULL
    /\ RowsOf(call.file)[2].hist_filename = NULL

\* the ids of the table grow strictly in the order the rows were inserted
IdsIncrease(db) == \A i, j \in 1..Len(db.rows) : i < j => db.rows[i].id < db.rows[j].id

\* C20: the ids returned by successive add_run calls on one database are
\* pairwise distinct and strictly increasing, also across closing and
\* re-opening the database file, and an id is never reused: every add_run
\* that returns appends one row whose id, the one returned, is larger than
\* every id of the table, the ids of the rows before it stay, and the ids
\* of every table grow strictly in insertion order after every step.
C20_IdsNeverReused ==
    [][/\ (call'.op = "add_run" /\ call'.outcome = "returned" /\ nops' = nops + 1) =>
             LET old == dbs[call'.file].rows
                 new == dbs'[call'.file].rows
             IN  /\ Len(new) = Len(old) + 1
                 /\ new[Len(new)].id = call'.run_id
                 /\ \A i \in 1..Len(old) : new[i].id = old[i].id /\ old[i].id < call'.run_id
       /\ \A f \in DbFiles : IdsIncrease(dbs'[f])]_vars

\* add_run has returned for the second time in a behaviour of MaxOps
\* operations, two other operations (close and open among them) after the
\* first: both rows are there, the later with the larger id
C20_Witness ==
    /\ call.op = "add_run" /\ call.outcome = "returned" /\ nops = MaxOps
    /\ \E i, j \in 1..Len(RowsOf(call.file)) :
          /\ i < j
          /\ RowsOf(call.file)[i].via = "add_run" /\ RowsOf(call.file)[j].via = "add_run"
          /\ RowsOf(call.file)[j].id = call.run_id
          /\ RowsOf(call.file)[i].id < call.run_id

(***************************************************************************)
(* Claims about the files of the interactive mode                          *)
(***************************************************************************)
\* the three names of version v under the default directory and the tag
FclNamed(v) == "./fclFiles/hitTuning_tag_" \o ToString(v) \o ".fcl"

OutputNamed(v) == "./fclFiles/output_tag_" \o ToString(v) \o ".root"

HistNamed(v) == "./fclFiles/hist_output_tag_" \o ToString(v) \o ".root"

\* the step writes an FCL file
WritesFcl == fclDir' # fclDir

\* the step appends the event ev of an interactive run
InteractiveStep(ev) ==
    /\ ~args.runGrid /\ ~args.createGrid
    /\ Len(events') = Len(events) + 1
    /\ events'[Len(events')].ev = ev

\* the row of the current interactive run after the step
CurrentRow ==
    LET rows == dbs'[TagDb].rows
    IN  rows[CHOOSE i \in 1..Len(rows) : rows[i].id = runId']

\* the FCL files named by the rows of the tag database are pairwise distinct
FclFilesDistinct(db) ==
    \A i, j \in 1..Len(db.rows) :
        i # j => db.rows[i].fcl_filename # db.rows[j].fcl_filename

\* C22: interactive mode never overwrites an existing configuration file: for
\* each parameter set it writes hitTuning_<tag>_<v>.fcl where v is the
\* smallest integer >= 0 for which that file does not yet exist in the output
\* directory; the row of the run names that file, and the output and
\* histogram file names of the same run carry the same v; the FCL files
\* written by a sequence of interactive runs are pairwise distinct and no
\* file of the directory is ever removed.
C22_NeverOverwrites ==
    [][/\ fclDir \subseteq fclDir'
       /\ mainPc = "generate" => WritesFcl
       /\ WritesFcl =>
             /\ ~args.runGrid /\ ~args.createGrid
             /\ version' \notin fclDir
             /\ \A w \in 0..(version' - 1) : w \in fclDir
             /\ fclDir' = fclDir \cup {version'}
       /\ InteractiveStep("add_run") =>
             /\ version' = version /\ version \in fclDir
             /\ CurrentRow.fcl_filename = FclNamed(version)
       /\ InteractiveStep("update_output_filename") =>
             /\ version' = version
             /\ CurrentRow.fcl_filename = FclNamed(version)
             /\ CurrentRow.output_filename = OutputNamed(version)
       /\ (InteractiveStep("galleryMC") \/ InteractiveStep("galleryMacro")) =>
             /\ version' = version
             /\ CurrentRow.fcl_filename = FclNamed(version)
             /\ CurrentRow.output_filename = OutputNamed(version)
             /\ events'[Len(events')].opt = HistNamed(version)
       /\ FclFilesDistinct(dbs'[TagDb])
      ]_vars

\* two interactive runs in a directory that held versions 0 and 2 wrote
\* versions 1 and 3, and the second went as far as the analysis
C22_Witness ==
    /\ fclDir = {0, 1, 2, 3}
    /\ Len(dbs[TagDb].rows) = 2
    /\ dbs[TagDb].rows[1].fcl_filename = FclNamed(1)
    /\ dbs[TagDb].rows[1].output_filename = OutputNamed(1)
    /\ dbs[TagDb].rows[2].fcl_filename = FclNamed(3)
    /\ dbs[TagDb].rows[2].output_filename = OutputNamed(3)
    /\ events[Len(events)].ev \in {"galleryMC", "galleryMacro"}
    /\ events[Len(events)].opt = HistNamed(3)
====
